---- MODULE Spec2Model ----
(***************************************************************************)
(* A model of the lucky window manager core (crates/lucky): the screen     *)
(* registry (ScreenManager), the per-screen workspaces (Screen, Workspace) *)
(* and the navigation algorithms of the tall layout (TallLayout).          *)
(*                                                                         *)
(* Rust's Option<T> is modelled as a sequence of length at most one:       *)
(* None is <<>> and Some(x) is <<x>>. Vec<Screen> and Vec<Workspace> are   *)
(* functions over 0..n-1, so that indices are the code's indices; a        *)
(* workspace's Vec of client ids is a sequence (position i of the code is  *)
(* position i+1 of the sequence).                                          *)
(***************************************************************************)
EXTENDS Integers, Sequences, FiniteSets, TLC

VARIABLES
    screens,        \* ScreenManager.screens
    clients,        \* ScreenManager.clients: frame id -> Client
    active_screen,  \* ScreenManager.active_screen
    config,         \* ScreenManager.config (read-only after startup)
    next_id,        \* the display server's next unused resource id
    panic,          \* None while the process runs, Some(message) once it aborted
    last,           \* the last operation that ran, its input and its result
    run             \* Lucky::run: the two threads and the channel between them

vars == <<screens, clients, active_screen, config, next_id, panic, last, run>>

\* The number of clients ever created in one behaviour: on the mirrored
\* monitors, on the single monitor and on the grid of nine.
MaxClients == 2
MaxClientsSingle == 3
MaxClientsGrid == 1

\* The same on the mirrored monitors when the workspaces are switched too.
MaxClientsWorkspaces == 1

\* The longest client list built through the methods of Workspace alone.
MaxListLen == 3

\* The number of clients created while the navigations are followed: on the
\* single monitor and on the mirrored monitors.
MaxClientsNavSingle == 3
MaxClientsNav == 2

\* The same on the row of three monitors.
MaxClientsNavRow == 2

\* The number of clients created while the lists are also built by hand.
MaxClientsLookup == 2

\* The layout: the largest border width, the largest small screen and the
\* number of visible clients.
MaxBorderWidth == 2
MaxWidth == 4
MaxHeight == 5
MaxVisible == 3

\* The number of events the display server emits in one behaviour.
MaxEvents == 3

\* The number of panels and docks registered on a screen at once, the largest
\* margin one of them reserves, and the number of clients laid out beside them.
MaxReserved == 2
MaxMargin == 3
MaxClientsReserved == 2

\* The number of workspaces of the configuration (Config::workspaces).
NumWorkspaces == 2

None == <<>>
Some(x) == <<x>>

Position(x, y, width, height) == [x |-> x, y |-> y, width |-> width, height |-> height]

right(p) == p.x + p.width
left(p) == p.x
bottom(p) == p.y + p.height
top(p) == p.y

Directions == {"Left", "Down", "Up", "Right"}

Range(s) == {s[i] : i \in DOMAIN s}

----------------------------------------------------------------------------
(* Workspace and Screen                                                    *)

WorkspaceNew(id) == [id |-> id, clients |-> <<>>, focused_client |-> None]

ScreenNew(cfg, position) ==
    [position |-> position,
     active_workspace |-> 0,
     reserved_left_area |-> 0,
     reserved_bottom_area |-> 0,
     reserved_top_area |-> 0,
     reserved_right_area |-> 0,
     reserved_clients |-> <<>>,
     workspaces |-> [w \in 0..(cfg.workspaces - 1) |-> WorkspaceNew(w)]]

active_workspace(screen) == screen.workspaces[screen.active_workspace]

focused_client(screen) == active_workspace(screen).focused_client

\* The screen with its active workspace replaced by ws (active_workspace_mut).
\* set_active_workspace taking the number of the workspace, counted from one.
set_active_workspace_from_one(screen, workspace) ==
    [screen EXCEPT !.active_workspace = workspace + 1]

set_active_workspace(screen, workspace) ==
    [screen EXCEPT !.active_workspace = workspace]

WithActiveWorkspace(screen, ws) ==
    [screen EXCEPT !.workspaces[screen.active_workspace] = ws]

\* new_client inserting at the head instead of pushing at the tail.
new_client_at_head(ws, client) == [ws EXCEPT !.clients = <<client>> \o @]

new_client(ws, client) == [ws EXCEPT !.clients = Append(@, client)]

set_focused_client(ws, client) == [ws EXCEPT !.focused_client = client]

\* A removal that stops at the first matching entry.
RetainAfterFirst(s, client) ==
    IF \A i \in DOMAIN s : s[i] # client THEN s
    ELSE LET first == CHOOSE i \in DOMAIN s :
                          s[i] = client /\ \A j \in 1..(i - 1) : s[j] # client
         IN  SubSeq(s, 1, first - 1) \o SubSeq(s, first + 1, Len(s))

\* Vec::retain(|i| i != client)
Retain(s, client) == SelectSeq(s, LAMBDA i : i # client)

\* remove_client that drops the entries and leaves the focus alone.
remove_client_keeping_focus(ws, client) ==
    [ws EXCEPT !.clients = Retain(@, client)]

remove_client(ws, client) ==
    [ws EXCEPT !.clients = Retain(@, client),
               !.focused_client = IF @ # None /\ @[1] = client THEN None ELSE @]

\* slice::first().copied()
First(s) == IF s = <<>> THEN None ELSE Some(s[1])

\* slice::last().copied()
Last(s) == IF s = <<>> THEN None ELSE Some(s[Len(s)])

----------------------------------------------------------------------------
(* The monitor arrangements ScreenManager::new is given.                   *)

\* The single screen of tall_layout.rs's test.
ArrSingle == <<Position(0, 0, 100, 100)>>

\* A monitor and, to its left, two mirrored monitors of which the first is
\* panned down by one pixel.
ArrMirror ==
    <<Position(1920, 0, 1920, 1080), Position(0, 1, 1920, 1080),
      Position(0, 0, 1920, 1080)>>

\* The nine monitors of screen_manager.rs's test: the active one, then its
\* left, right, bottom, bottom-right, bottom-left, top, top-right and
\* top-left neighbours.
ArrGrid ==
    <<Position(1920, 0, 1920, 1080), Position(0, 0, 1920, 1080),
      Position(3840, 0, 1920, 1080), Position(1920, 1080, 1920, 1080),
      Position(3840, 1080, 1920, 1080), Position(0, 1080, 1920, 1080),
      Position(1920, -1080, 1920, 1080), Position(3840, -1080, 1920, 1080),
      Position(0, -1080, 1920, 1080)>>

\* Three monitors side by side, the active one leftmost.
ArrRow ==
    <<Position(0, 0, 1920, 1080), Position(1920, 0, 1920, 1080),
      Position(3840, 0, 1920, 1080)>>

\* A monitor of width zero, the active one, at the right edge of an ordinary
\* monitor: Position holds unsigned sizes and nothing rejects a zero.
ArrZeroWidth ==
    <<Position(1920, 0, 0, 1080), Position(0, 0, 1920, 1080)>>

Arrangements == {ArrSingle, ArrMirror, ArrGrid, ArrRow, ArrZeroWidth}

MonitorPositions == UNION {Range(a) : a \in Arrangements}

----------------------------------------------------------------------------
(* ScreenManager: spatial queries                                          *)

\* The largest v in lo..hi with v * v <= n, given lo * lo <= n.
RECURSIVE ISqrtIn(_, _, _)
ISqrtIn(n, lo, hi) ==
    IF lo = hi THEN lo
    ELSE LET mid == (lo + hi + 1) \div 2
         IN  IF mid * mid <= n THEN ISqrtIn(n, mid, hi) ELSE ISqrtIn(n, lo, mid - 1)

\* floor(sqrt(n)) for 0 <= n < 2^31.
ISqrt(n) == ISqrtIn(n, 0, 46340)

\* The largest b in lo..hi with (1000a + b)^2 <= 10^6 (a^2 + r), that is
\* 2ab + ceil(b^2 / 1000) <= 1000r (no product exceeds 32 bits).
RECURSIVE MilliIn(_, _, _, _)
MilliIn(a, r, lo, hi) ==
    IF lo = hi THEN lo
    ELSE LET mid == (lo + hi + 1) \div 2
         IN  IF 2 * a * mid + ((mid * mid + 999) \div 1000) <= 1000 * r
             THEN MilliIn(a, r, mid, hi)
             ELSE MilliIn(a, r, lo, mid - 1)

\* floor(1000 * sqrt(n)), with a = floor(sqrt(n)) and r = n - a * a.
MilliSqrt(n) ==
    LET a == ISqrt(n)
    IN  1000 * a + MilliIn(a, n - a * a, 0, 999)

\* The square of euclidean_distance: the i32 sum under the square root.
distance_squared(x1, y1, x2, y2) == (x2 - x1) * (x2 - x1) + (y2 - y1) * (y2 - y1)

\* (euclidean_distance(..) * 1000.0) as i32, the key of min_by_key.
euclidean_distance_milli(x1, y1, x2, y2) == MilliSqrt(distance_squared(x1, y1, x2, y2))

\* The keys of every pair of monitor rectangles, computed once.
KeyTable ==
    [pair \in MonitorPositions \X MonitorPositions |->
        euclidean_distance_milli(left(pair[1]), top(pair[1]), left(pair[2]), top(pair[2]))]

distance_key(position, curr_position) == KeyTable[<<position, curr_position>>]

\* The filter closure with strict comparisons: touching screens excluded.
in_direction_strict(direction, position, curr_position) ==
    CASE direction = "Left" -> right(position) < left(curr_position)
      [] direction = "Down" -> top(position) > bottom(curr_position)
      [] direction = "Up" -> bottom(position) < top(curr_position)
      [] direction = "Right" -> left(position) > right(curr_position)

\* The filter closure of get_relative_screen_idx.
in_direction(direction, position, curr_position) ==
    CASE direction = "Left" -> right(position) <= left(curr_position)
      [] direction = "Down" -> top(position) >= bottom(curr_position)
      [] direction = "Up" -> bottom(position) <= top(curr_position)
      [] direction = "Right" -> left(position) >= right(curr_position)

candidates(scr, active, direction) ==
    {idx \in DOMAIN scr :
        in_direction(direction, scr[idx].position, scr[active].position)}

\* Iterator::min_by_key returns the first of several equally minimal elements.
get_relative_screen_idx(scr, active, direction) ==
    LET cands == candidates(scr, active, direction)
        key == [idx \in cands |->
                   distance_key(scr[idx].position, scr[active].position)]
    IN  IF cands = {} THEN None
        ELSE Some(CHOOSE idx \in cands :
                    \A other \in cands :
                        \/ key[idx] < key[other]
                        \/ key[idx] = key[other] /\ idx <= other)

\* Containment that counts the right and bottom edges as inside.
is_cursor_inside_closed(x, y, position) ==
    /\ x >= position.x
    /\ x <= position.x + position.width
    /\ y >= position.y
    /\ y <= position.y + position.height

is_cursor_inside(x, y, position) ==
    /\ x >= position.x
    /\ x < position.x + position.width
    /\ y >= position.y
    /\ y < position.y + position.height

\* The for_each of maybe_switch_screen stopping at the first screen that
\* contains the cursor.
switched_screen_first(scr, active, cursor_x, cursor_y) ==
    LET inside == {idx \in DOMAIN scr :
                      is_cursor_inside(cursor_x, cursor_y, scr[idx].position)}
    IN  IF inside = {} THEN active
        ELSE CHOOSE idx \in inside : \A other \in inside : idx <= other

\* The value of active_screen after the for_each of maybe_switch_screen: the
\* index of the last screen, in iteration order, containing the cursor.
switched_screen(scr, active, cursor_x, cursor_y) ==
    LET inside == {idx \in DOMAIN scr :
                      is_cursor_inside(cursor_x, cursor_y, scr[idx].position)}
    IN  IF inside = {} THEN active
        ELSE CHOOSE idx \in inside : \A other \in inside : other <= idx

----------------------------------------------------------------------------
(* ScreenManager: construction and client lifecycle                        *)

\* ScreenManager::new: one Screen per position, in order, indexed from 0.
ScreenManagerNew(screen_positions, cfg) ==
    [idx \in 0..(Len(screen_positions) - 1) |->
        ScreenNew(cfg, screen_positions[idx + 1])]

\* HashMap::insert
MapInsert(map, key, value) ==
    [k \in DOMAIN map \cup {key} |-> IF k = key THEN value ELSE map[k]]

\* HashMap::remove: the map without the key, and the value it held
MapRemove(map, key) == [k \in DOMAIN map \ {key} |-> map[k]]

MapGet(map, key) == IF key \in DOMAIN map THEN Some(map[key]) ELSE None

\* The Client record create_client inserts.
create_client_record(scr, active, frame, window) ==
    [frame |-> frame,
     window |-> window,
     visible |-> TRUE,
     workspace |-> active_workspace(scr[active]).id]

\* create_client focusing every new client, whatever the configuration says.
create_client_workspace_always_focused(ws, cfg, frame) ==
    set_focused_client(new_client(ws, frame), Some(frame))

\* The workspace create_client leaves behind: the frame pushed, and focused
\* when the configuration says so or when it is the only client.
create_client_workspace(ws, cfg, frame) ==
    LET pushed == new_client(ws, frame)
    IN  IF cfg.focus_new_clients \/ Len(pushed.clients) = 1
        THEN set_focused_client(pushed, Some(frame))
        ELSE pushed

create_client_screens(scr, active, cfg, frame) ==
    [scr EXCEPT ![active] =
        WithActiveWorkspace(@, create_client_workspace(active_workspace(@), cfg, frame))]

\* close_focused_client leaving the focus where remove_client left it.
close_focused_workspace_unfocused(ws, frame) == remove_client(ws, frame)

\* The workspace close_focused_client leaves behind when frame is focused.
close_focused_workspace(ws, frame) ==
    LET removed == remove_client(ws, frame)
    IN  set_focused_client(removed, First(removed.clients))

\* close_focused_client closing the first client of a workspace that focuses
\* none.
close_focused_client_first(scr, map, active) ==
    LET focused == First(active_workspace(scr[active]).clients)
    IN  IF focused # None
        THEN [screens |-> [scr EXCEPT ![active] =
                              WithActiveWorkspace(@,
                                  close_focused_workspace(active_workspace(@), focused[1]))],
              clients |-> MapRemove(map, focused[1]),
              ret |-> MapGet(map, focused[1])]
        ELSE [screens |-> scr, clients |-> map, ret |-> None]

\* close_focused_client: the screens, the map and the returned Option<Client>.
close_focused_client(scr, map, active) ==
    LET focused == focused_client(scr[active])
    IN  IF focused # None
        THEN [screens |-> [scr EXCEPT ![active] =
                              WithActiveWorkspace(@,
                                  close_focused_workspace(active_workspace(@), focused[1]))],
              clients |-> MapRemove(map, focused[1]),
              ret |-> MapGet(map, focused[1])]
        ELSE [screens |-> scr, clients |-> map, ret |-> None]

\* A find closure that compares the frame only.
focus_client_matches_frame(map, window) ==
    {map[f] : f \in {k \in DOMAIN map : map[k].frame = window}}

\* The clients the find closure of ScreenManager::focus_client accepts.
focus_client_matches(map, window) ==
    {map[f] : f \in {k \in DOMAIN map : map[k].window = window \/ map[k].frame = window}}

\* The for_each of ScreenManager::focus_client for the client found.
focus_client_screens(scr, client) ==
    [idx \in DOMAIN scr |->
        LET ws == active_workspace(scr[idx])
        IN  IF client.frame \in Range(ws.clients)
            THEN WithActiveWorkspace(scr[idx], set_focused_client(ws, Some(client.frame)))
            ELSE scr[idx]]

\* A lookup that skips the listed frames that have no record.
get_visible_screen_clients_skipping(map, screen) ==
    LET ids == SelectSeq(active_workspace(screen).clients, LAMBDA id : id \in DOMAIN map)
    IN  [panic |-> None, clients |-> [i \in DOMAIN ids |-> map[ids[i]]]]

\* get_visible_screen_clients: the records of the active workspace's clients,
\* or a panic when a listed frame has no record.
get_visible_screen_clients(map, screen) ==
    LET ids == active_workspace(screen).clients
    IN  IF \A i \in DOMAIN ids : ids[i] \in DOMAIN map
        THEN [panic |-> None, clients |-> [i \in DOMAIN ids |-> map[ids[i]]]]
        ELSE [panic |-> Some("we tried to index into an non-existing frame."),
              clients |-> <<>>]

----------------------------------------------------------------------------
(* TallLayout: boundary predicates and terminal operators. Each operator   *)
(* yields the screen it leaves behind and the panic it raised, if any.     *)

Ok(screen) == [screen |-> screen, panic |-> None]
Panicked(screen, message) == [screen |-> screen, panic |-> Some(message)]

\* Iterator::position: the 0-based index of the first occurrence.
IndexOf(s, client) ==
    IF client \in Range(s)
    THEN Some((CHOOSE i \in DOMAIN s : s[i] = client /\ \A j \in 1..(i - 1) : s[j] # client) - 1)
    ELSE None

\* slice::swap on 0-based indices, both in bounds.
Swap(s, i, j) ==
    [k \in DOMAIN s |-> IF k = i + 1 THEN s[j + 1] ELSE IF k = j + 1 THEN s[i + 1] ELSE s[k]]

NotIncluded == "workspace clients vector should include selected client"

is_first(screen, client) ==
    LET first == First(active_workspace(screen).clients)
    IN  first # None /\ first[1] = client

is_last(screen, client) ==
    LET lst == Last(active_workspace(screen).clients)
    IN  lst # None /\ lst[1] = client

WithClients(screen, list) ==
    WithActiveWorkspace(screen, [active_workspace(screen) EXCEPT !.clients = list])

WithFocus(screen, client) ==
    WithActiveWorkspace(screen, set_focused_client(active_workspace(screen), client))

\* swap_first that takes the client out and puts it in front of the others.
swap_first_to_front(screen, client) ==
    LET list == active_workspace(screen).clients
        index == IndexOf(list, client)
    IN  IF index = None THEN Panicked(screen, NotIncluded)
        ELSE Ok(WithClients(screen, <<client>> \o SelectSeq(list, LAMBDA c : c # client)))

swap_first(screen, client) ==
    LET list == active_workspace(screen).clients
        index == IndexOf(list, client)
    IN  IF index = None THEN Panicked(screen, NotIncluded)
        ELSE Ok(WithClients(screen, Swap(list, index[1], 0)))

\* index.sub(1) underflows at index 0: an overflow panic, or (wrapping) a swap
\* out of bounds, which panics as well.
swap_prev(screen, client) ==
    LET list == active_workspace(screen).clients
        index == IndexOf(list, client)
    IN  IF index = None THEN Panicked(screen, NotIncluded)
        ELSE IF index[1] = 0 THEN Panicked(screen, "swap index out of bounds")
        ELSE Ok(WithClients(screen, Swap(list, index[1], index[1] - 1)))

swap_next(screen, client) ==
    LET list == active_workspace(screen).clients
        index == IndexOf(list, client)
    IN  IF index = None THEN Panicked(screen, NotIncluded)
        ELSE IF index[1] + 1 >= Len(list) THEN Panicked(screen, "swap index out of bounds")
        ELSE Ok(WithClients(screen, Swap(list, index[1], index[1] + 1)))

\* focus_first reading the other end of the list.
focus_first_from_last(screen, client) ==
    LET lst == Last(active_workspace(screen).clients)
    IN  IF lst = None
        THEN Panicked(screen, "tried to focus a client on an empty workspace")
        ELSE Ok(WithFocus(screen, lst))

focus_first(screen, client) ==
    LET first == First(active_workspace(screen).clients)
    IN  IF first = None
        THEN Panicked(screen, "tried to focus a client on an empty workspace")
        ELSE Ok(WithFocus(screen, first))

focus_last(screen, client) ==
    LET lst == Last(active_workspace(screen).clients)
    IN  IF lst = None
        THEN Panicked(screen, "tried to focus a client on an empty workspace")
        ELSE Ok(WithFocus(screen, lst))

\* index.sub(1) underflows at index 0: an overflow panic, or (wrapping) a get
\* out of bounds, whose None makes the expect panic.
focus_prev(screen, client) ==
    LET list == active_workspace(screen).clients
        index == IndexOf(list, client)
    IN  IF index = None THEN Panicked(screen, NotIncluded)
        ELSE IF index[1] = 0
        THEN Panicked(screen, "should have a next client at this point")
        ELSE Ok(WithFocus(screen, Some(list[index[1]])))

\* focus_next reading the entry at the client's own index.
focus_next_in_place(screen, client) ==
    LET list == active_workspace(screen).clients
        index == IndexOf(list, client)
    IN  IF index = None THEN Panicked(screen, NotIncluded)
        ELSE Ok(WithFocus(screen, Some(list[index[1] + 1])))

focus_next(screen, client) ==
    LET list == active_workspace(screen).clients
        index == IndexOf(list, client)
    IN  IF index = None THEN Panicked(screen, NotIncluded)
        ELSE IF index[1] + 1 >= Len(list)
        THEN Panicked(screen, "should have a next client at this point")
        ELSE Ok(WithFocus(screen, Some(list[index[1] + 2])))

\* The closures passed to TallLayout::focus_client and TallLayout::move_client,
\* by name.
Boundaries == {"is_first", "is_last"}
FocusOperators == {"focus_first", "focus_last", "focus_prev", "focus_next"}
SwapOperators == {"swap_first", "swap_prev", "swap_next"}
WhenEmpty == {"focus_last"}

CallBoundary(name, screen, client) ==
    CASE name = "is_first" -> is_first(screen, client)
      [] name = "is_last" -> is_last(screen, client)

CallOperator(name, screen, client) ==
    CASE name = "focus_first" -> focus_first(screen, client)
      [] name = "focus_last" -> focus_last(screen, client)
      [] name = "focus_prev" -> focus_prev(screen, client)
      [] name = "focus_next" -> focus_next(screen, client)
      [] name = "swap_first" -> swap_first(screen, client)
      [] name = "swap_prev" -> swap_prev(screen, client)
      [] name = "swap_next" -> swap_next(screen, client)

----------------------------------------------------------------------------
(* TallLayout: navigation. Each yields the screens and the active screen   *)
(* it leaves behind, the panic it raised (if any), the number of screens   *)
(* it changed to, and the branch it ended in.                              *)

NoFocused == "tried to get the focused client when there was none"

NavResult(scr, active, pnc, hops, end) ==
    [screens |-> scr, active_screen |-> active, panic |-> pnc, hops |-> hops, end |-> end]

\* A focus_client that changes to the neighbouring screen and stops there,
\* without running again on it.
TallLayout_focus_client_one_hop(scr, index, when_empty, should_change_screen, change_screen_direction, focus, visited) ==
    LET screen == scr[index]
    IN  IF active_workspace(screen).clients = <<>>
        THEN NavResult(scr, index, None, 0, "empty")
        ELSE IF focused_client(screen) = None
        THEN NavResult(scr, index, Some(NoFocused), 0, "panic")
        ELSE LET client == focused_client(screen)[1]
                 new_screen == get_relative_screen_idx(scr, index, change_screen_direction)
             IN  IF CallBoundary(should_change_screen, screen, client)
                 THEN IF new_screen = None
                      THEN NavResult(scr, index, None, 0, "no_neighbour")
                      ELSE NavResult(scr, new_screen[1], None, 1, "empty")
                 ELSE LET done == CallOperator(focus, screen, client)
                      IN  NavResult([scr EXCEPT ![index] = done.screen], index,
                                    done.panic, 0,
                                    IF done.panic = None THEN "operator" ELSE "panic")

\* TallLayout::focus_client. visited holds the screens the recursion has left:
\* the recursion changes nothing but the active screen, so coming back to one
\* of them repeats the same calls without end.
RECURSIVE TallLayout_focus_client(_, _, _, _, _, _, _)
TallLayout_focus_client(scr, index, when_empty, should_change_screen, change_screen_direction, focus, visited) ==
    LET screen == scr[index]
        hops == Cardinality(visited)
    IN  IF active_workspace(screen).clients = <<>>
        THEN NavResult(scr, index, None, hops, "empty")
        ELSE IF focused_client(screen) = None
        THEN NavResult(scr, index, Some(NoFocused), hops, "panic")
        ELSE LET client == focused_client(screen)[1]
             IN  IF CallBoundary(should_change_screen, screen, client)
                 THEN LET new_screen ==
                              get_relative_screen_idx(scr, index, change_screen_direction)
                      IN  IF new_screen = None
                          THEN NavResult(scr, index, None, hops, "no_neighbour")
                          ELSE IF new_screen[1] \in visited \cup {index}
                          THEN NavResult(scr, new_screen[1],
                                         Some("unbounded recursion"), hops + 1, "panic")
                          ELSE TallLayout_focus_client(scr, new_screen[1], when_empty,
                                   should_change_screen, change_screen_direction, focus,
                                   visited \cup {index})
                 ELSE LET done == CallOperator(focus, screen, client)
                      IN  NavResult([scr EXCEPT ![index] = done.screen], index,
                                    done.panic, hops,
                                    IF done.panic = None THEN "operator" ELSE "panic")

\* A cross-screen branch that removes the client and pushes it nowhere.
move_to_screen_dropped(scr, index, new_screen, client) ==
    [scr EXCEPT ![index] =
        WithActiveWorkspace(@, remove_client(active_workspace(@), client))]

\* A cross-screen branch that pushes the client onto the neighbour and leaves
\* it on the screen it came from.
move_to_screen_copied(scr, index, new_screen, client) ==
    [scr EXCEPT ![new_screen] =
        WithActiveWorkspace(@, new_client(active_workspace(@), client))]

\* The cross-screen branch of TallLayout::move_client: the client removed from
\* the active workspace of screen index, then pushed onto the active workspace
\* of new_screen.
move_to_screen(scr, index, new_screen, client) ==
    LET removed == [scr EXCEPT ![index] =
                       WithActiveWorkspace(@, remove_client(active_workspace(@), client))]
    IN  [removed EXCEPT ![new_screen] =
            WithActiveWorkspace(@, new_client(active_workspace(@), client))]

\* move_client going on to the terminal operator when no neighbouring screen
\* exists.
TallLayout_move_client_falling_through(scr, index, when_empty, should_change_screen, change_screen_direction, swap) ==
    LET screen == scr[index]
    IN  IF active_workspace(screen).clients = <<>>
        THEN NavResult(scr, index, None, 0, "empty")
        ELSE IF focused_client(screen) = None
        THEN NavResult(scr, index, Some(NoFocused), 0, "panic")
        ELSE LET client == focused_client(screen)[1]
                 new_screen == get_relative_screen_idx(scr, index, change_screen_direction)
             IN  IF CallBoundary(should_change_screen, screen, client) /\ new_screen # None
                 THEN NavResult(move_to_screen(scr, index, new_screen[1], client),
                                index, None, 1, "moved")
                 ELSE LET done == CallOperator(swap, screen, client)
                      IN  NavResult([scr EXCEPT ![index] = done.screen], index,
                                    done.panic, 0,
                                    IF done.panic = None THEN "operator" ELSE "panic")

\* TallLayout::move_client.
TallLayout_move_client(scr, index, when_empty, should_change_screen, change_screen_direction, swap) ==
    LET screen == scr[index]
    IN  IF active_workspace(screen).clients = <<>>
        THEN NavResult(scr, index, None, 0, "empty")
        ELSE IF focused_client(screen) = None
        THEN NavResult(scr, index, Some(NoFocused), 0, "panic")
        ELSE LET client == focused_client(screen)[1]
             IN  IF CallBoundary(should_change_screen, screen, client)
                 THEN LET new_screen ==
                              get_relative_screen_idx(scr, index, change_screen_direction)
                      IN  IF new_screen = None
                          THEN NavResult(scr, index, None, 0, "no_neighbour")
                          ELSE NavResult(move_to_screen(scr, index, new_screen[1], client),
                                         index, None, 1, "moved")
                 ELSE LET done == CallOperator(swap, screen, client)
                      IN  NavResult([scr EXCEPT ![index] = done.screen], index,
                                    done.panic, 0,
                                    IF done.panic = None THEN "operator" ELSE "panic")

----------------------------------------------------------------------------
(* TallLayout: geometry. The sizes are u32 and the border width is u16: a  *)
(* subtraction below zero panics in a build with overflow checks and wraps *)
(* in one without. A u32 is held as the signed integer of the same 32      *)
(* bits, so that 2^32 - k is held as -k.                                   *)

\* u32::sub without overflow checks, of two values below 2^31.
wrapping_sub(a, b) == a - b

\* u32::div_ceil.
div_ceil(a, b) ==
    LET d == a \div b
        r == a % b
    IN  IF r > 0 THEN d + 1 ELSE d

\* The cast `as i32` of a u32: the same bits.
as_i32(v) == v

\* config.borrow().border_width().mul(2) as u32, the product taken in u16.
border_double(border_width) == (border_width * 2) % 65536

\* The requests sent to the display server and the calls made on the
\* Decorator, in the order they are made.
Request(request, window, position) ==
    [request |-> request, window |-> window, position |-> position]

ConfigureWindow(window, position) == Request("ConfigureWindow", window, Some(position))
MapWindow(window) == Request("MapWindow", window, None)
Decorator_unfocus_client(client) == Request("unfocus_client", client.frame, None)
Decorator_focus_client(client) == Request("focus_client", client.frame, None)

\* The main width of display_clients, halved whatever the number of clients.
main_width_halved(position, visible_clients_len) == position.width \div 2

\* The main width of display_clients.
main_width(position, visible_clients_len) ==
    IF visible_clients_len = 1 THEN position.width ELSE position.width \div 2

\* display_main_client that maps the frame before the content window.
display_main_client_frame_first(client, position, main_w, border_width) ==
    [overflow |-> \/ border_width * 2 >= 65536
                  \/ border_double(border_width) > main_w
                  \/ border_double(border_width) > position.height,
     requests |->
        <<ConfigureWindow(client.frame,
                          Position(position.x, position.y,
                                   wrapping_sub(main_w, border_double(border_width)),
                                   wrapping_sub(position.height, border_double(border_width)))),
          ConfigureWindow(client.window,
                          Position(0, 0,
                                   wrapping_sub(main_w, border_width),
                                   wrapping_sub(position.height, border_width))),
          MapWindow(client.frame),
          MapWindow(client.window)>>]

\* display_main_client: the requests it sends, and whether one of its
\* subtractions (or the doubling of the border) overflows.
display_main_client(client, position, main_w, border_width) ==
    [overflow |-> \/ border_width * 2 >= 65536
                  \/ border_double(border_width) > main_w
                  \/ border_double(border_width) > position.height,
     requests |->
        <<ConfigureWindow(client.frame,
                          Position(position.x, position.y,
                                   wrapping_sub(main_w, border_double(border_width)),
                                   wrapping_sub(position.height, border_double(border_width)))),
          ConfigureWindow(client.window,
                          Position(0, 0,
                                   wrapping_sub(main_w, border_width),
                                   wrapping_sub(position.height, border_width))),
          MapWindow(client.window),
          MapWindow(client.frame)>>]

\* display_side_client, index counted from 0 as by enumerate.
display_side_client(client, position, index, total, main_w, border_width) ==
    LET width == wrapping_sub(position.width, main_w)
        total_siblings == total - 1
        height == div_ceil(position.height, total_siblings)
        sibling_index == index - 1
        position_y == as_i32(height * sibling_index)
    IN  [overflow |-> \/ border_width * 2 >= 65536
                      \/ border_double(border_width) > width
                      \/ border_double(border_width) > height,
         requests |->
            <<ConfigureWindow(client.frame,
                              Position(position.x + as_i32(main_w),
                                       position.y + position_y,
                                       wrapping_sub(width, border_double(border_width)),
                                       wrapping_sub(height, border_double(border_width)))),
              ConfigureWindow(client.window,
                              Position(0, 0,
                                       wrapping_sub(width, border_double(border_width)),
                                       wrapping_sub(height, border_double(border_width)))),
              MapWindow(client.window),
              MapWindow(client.frame)>>]

RECURSIVE Flatten(_)
Flatten(seqs) == IF seqs = <<>> THEN <<>> ELSE Head(seqs) \o Flatten(Tail(seqs))

Smallest(set) == CHOOSE i \in set : \A j \in set : i <= j

ArithmeticOverflow == "attempt to subtract with overflow"

\* TallLayout::display_clients. overflow_checks tells the build; failing is
\* the number of the Decorator call that returns an error (the k-th unfocus,
\* or the focus after them), 0 for none. Yields the requests and calls made,
\* the result returned and the panic raised, if any.
display_clients(position, visible, focused, border_width, overflow_checks, failing) ==
    LET visible_clients_len == Len(visible)
        main_w == main_width(position, visible_clients_len)
        placed(i) ==
            IF i = 1
            THEN display_main_client(visible[i], position, main_w, border_width)
            ELSE display_side_client(visible[i], position, i - 1, visible_clients_len,
                                     main_w, border_width)
        stops(i) == failing = i \/ (overflow_checks /\ placed(i).overflow)
        stopped == {i \in DOMAIN visible : stops(i)}
        reached == IF stopped = {} THEN visible_clients_len ELSE Smallest(stopped)
        blocks == [i \in 1..reached |->
                      IF stops(i) THEN <<Decorator_unfocus_client(visible[i])>>
                      ELSE <<Decorator_unfocus_client(visible[i])>> \o placed(i).requests]
        found == IF focused = None THEN {}
                 ELSE {i \in DOMAIN visible : visible[i] = focused[1]}
    IN  IF stopped # {}
        THEN IF failing = reached
             THEN [requests |-> Flatten(blocks), ret |-> "Err", panic |-> None]
             ELSE [requests |-> Flatten(blocks), ret |-> "panic",
                   panic |-> Some(ArithmeticOverflow)]
        ELSE IF found = {}
        THEN [requests |-> Flatten(blocks), ret |-> "Ok", panic |-> None]
        ELSE [requests |-> Flatten(blocks)
                               \o <<Decorator_focus_client(visible[Smallest(found)])>>,
              ret |-> IF failing = visible_clients_len + 1 THEN "Err" ELSE "Ok",
              panic |-> None]

----------------------------------------------------------------------------
(* Screen: the reserved clients and the margins they reserve. The sizes    *)
(* are u32; the amounts tried are far below 2^32, so no addition wraps.    *)

Edges == {"left", "bottom", "top", "right"}

\* A panel or dock that reserves the given amount on one edge of the screen.
ReservedClient(window, edge, amount) ==
    [window |-> window,
     show_on_all_workspaces |-> FALSE,
     workspace |-> 0,
     position |-> Position(0, 0, 1, 1),
     reserved_left |-> IF edge = "left" THEN amount ELSE 0,
     reserved_bottom |-> IF edge = "bottom" THEN amount ELSE 0,
     reserved_top |-> IF edge = "top" THEN amount ELSE 0,
     reserved_right |-> IF edge = "right" THEN amount ELSE 0]

\* Screen::add_left_reserved_area, add_bottom_reserved_area,
\* add_top_reserved_area and add_right_reserved_area.
add_reserved_area(screen, edge, amount) ==
    CASE edge = "left" -> [screen EXCEPT !.reserved_left_area = @ + amount]
      [] edge = "bottom" -> [screen EXCEPT !.reserved_bottom_area = @ + amount]
      [] edge = "top" -> [screen EXCEPT !.reserved_top_area = @ + amount]
      [] edge = "right" -> [screen EXCEPT !.reserved_right_area = @ + amount]

\* Screen::sub_left_reserved_area, sub_bottom_reserved_area,
\* sub_top_reserved_area and sub_right_reserved_area: the accumulator after
\* the subtraction, and whether the subtraction overflowed.
sub_reserved_area(screen, edge, amount) ==
    CASE edge = "left" ->
             [screen |-> [screen EXCEPT !.reserved_left_area = wrapping_sub(@, amount)],
              overflow |-> amount > screen.reserved_left_area]
      [] edge = "bottom" ->
             [screen |-> [screen EXCEPT !.reserved_bottom_area = wrapping_sub(@, amount)],
              overflow |-> amount > screen.reserved_bottom_area]
      [] edge = "top" ->
             [screen |-> [screen EXCEPT !.reserved_top_area = wrapping_sub(@, amount)],
              overflow |-> amount > screen.reserved_top_area]
      [] edge = "right" ->
             [screen |-> [screen EXCEPT !.reserved_right_area = wrapping_sub(@, amount)],
              overflow |-> amount > screen.reserved_right_area]

\* Screen::add_reserved_client.
add_reserved_client(screen, reserved_client) ==
    [screen EXCEPT !.reserved_clients = Append(@, reserved_client)]

\* Screen::remove_reserved_client: Vec::remove at the 0-based index.
remove_reserved_client(screen, reserved_client_idx) ==
    [screen EXCEPT !.reserved_clients =
        SubSeq(@, 1, reserved_client_idx) \o SubSeq(@, reserved_client_idx + 2, Len(@))]

\* Screen::get_available_area: the rectangle, and whether a subtraction
\* overflowed on the way.
get_available_area(screen) ==
    [overflow |->
        \/ screen.reserved_left_area > screen.position.width
        \/ screen.reserved_right_area > screen.position.width - screen.reserved_left_area
        \/ screen.reserved_top_area > screen.position.height
        \/ screen.reserved_bottom_area > screen.position.height - screen.reserved_top_area,
     position |->
        Position(screen.position.x + as_i32(screen.reserved_left_area),
                 screen.position.y + as_i32(screen.reserved_top_area),
                 wrapping_sub(wrapping_sub(screen.position.width, screen.reserved_left_area),
                              screen.reserved_right_area),
                 wrapping_sub(wrapping_sub(screen.position.height, screen.reserved_top_area),
                              screen.reserved_bottom_area))]

\* A layout that tiles the area the reserved margins leave.
Screen_position_available(screen) == get_available_area(screen).position

\* Screen::position, the rectangle display_clients reads.
Screen_position(screen) == screen.position

----------------------------------------------------------------------------
(* Lucky::run: the producer thread takes the display server's events from  *)
(* the connection and forwards them over the channel; the consumer (the    *)
(* main thread) receives them and runs the handlers. An event is known by  *)
(* its position in the sequence the server emitted. The connection is      *)
(* taken to stay up: wait_for_event and flush succeed.                     *)

\* The kinds of event wait_for_event returns: the ones the producer matches
\* by name, and any other.
EventKinds ==
    {"KeyPress", "MapRequest", "DestroyNotify", "EnterNotify", "ConfigureRequest",
     "PropertyNotify", "UnmapNotify", "Other"}

\* The kinds the producer sends on the channel.
Forwarded == {"KeyPress", "MapRequest", "DestroyNotify", "EnterNotify"}

\* The handler the consumer calls for each of them.
HandlerOf(kind) ==
    CASE kind = "KeyPress" -> "on_key_press"
      [] kind = "MapRequest" -> "on_map_request"
      [] kind = "DestroyNotify" -> "on_destroy_notify"
      [] kind = "EnterNotify" -> "on_enter_notify"

\* The state when run has created the channel and spawned the producer.
RunNew ==
    [process |-> "running",
     emitted |-> <<>>,
     taken |-> 0,
     producer |-> [pc |-> "wait_for_event", event |-> 0],
     channel |-> <<>>,
     receiver |-> TRUE,
     consumer |-> [pc |-> "recv", event |-> 0],
     handled |-> <<>>,
     failed |-> {}]

\* The producer's match on the event wait_for_event returned.
producer_match(r, event) ==
    LET kind == r.emitted[event]
    IN  [r EXCEPT !.taken = event,
                  !.producer =
                      IF kind \in Forwarded THEN [pc |-> "send", event |-> event]
                      ELSE IF kind = "ConfigureRequest"
                      THEN [pc |-> "panicked", event |-> event]
                      ELSE [pc |-> "flush", event |-> event]]

\* A failed send that is logged and passed over.
send_failed_ignored(r) == [r EXCEPT !.producer.pc = "flush"]

\* sender.send(..).is_err(): std::process::abort().
send_failed(r) == [r EXCEPT !.process = "aborted"]

\* sender.send(event).
producer_send(r) ==
    IF r.receiver
    THEN [r EXCEPT !.channel = Append(@, r.producer.event), !.producer.pc = "flush"]
    ELSE send_failed(r)

\* A receive that takes the event sent last.
received_last(r) == r.channel[Len(r.channel)]

\* receiver.recv(): the event sent first.
received(r) == Head(r.channel)

\* The channel after a receive of the given event.
RECURSIVE without_first(_, _)
without_first(channel, event) ==
    IF channel = <<>> THEN <<>>
    ELSE IF Head(channel) = event THEN Tail(channel)
    ELSE <<Head(channel)>> \o without_first(Tail(channel), event)

\* A consumer that takes the next event whether or not a handler is running.
can_recv_reentrant(r) == r.consumer.pc \in {"recv", "handler"} /\ r.channel # <<>>

\* The consumer is blocked in receiver.recv() and an event is in the channel.
can_recv(r) == r.consumer.pc = "recv" /\ r.channel # <<>>

\* The consumer's match on the event it received.
consumer_match(r, event) ==
    LET kind == r.emitted[event]
        rest == [r EXCEPT !.channel = without_first(@, event)]
    IN  IF kind \in Forwarded
        THEN [rest EXCEPT !.consumer = [pc |-> "handler", event |-> event],
                          !.handled = Append(@, event)]
        ELSE IF kind = "ConfigureRequest"
        THEN [rest EXCEPT !.consumer = [pc |-> "unwinding", event |-> event],
                          !.receiver = FALSE]
        ELSE rest

----------------------------------------------------------------------------
(* The configuration, the inputs of the operations and the initial state.  *)

Configs == [focus_new_clients : BOOLEAN, workspaces : {NumWorkspaces}]

\* The configuration with the border width that the layout reads.
LayoutConfigs ==
    [focus_new_clients : BOOLEAN, workspaces : {NumWorkspaces},
     border_width : 0..MaxBorderWidth]

\* The sizes of the screen the layout is computed for: every small one, and
\* an ordinary monitor's.
LayoutSizes == ((0..MaxWidth) \X (0..MaxHeight)) \cup {<<1920, 1080>>}

\* The single screen of each size, away from the origin.
LayoutArrangements ==
    {<<Position(1920, -1080, size[1], size[2])>> : size \in LayoutSizes}

\* The display server hands out resource ids in increasing order: the k-th
\* client's window has id 2k-1 and the frame generated for it has id 2k.
\* An enter notification may carry any id handed out so far, and the next
\* one, which is neither a window nor a frame.
NotifiedIds == 1..next_id

\* The pointer positions tried: of every screen the top-left corner (inside),
\* the top-right corner (on its right edge) and the bottom-left corner (on its
\* bottom edge).
CursorPoints ==
    UNION {{<<left(screens[i].position), top(screens[i].position)>>,
            <<right(screens[i].position), top(screens[i].position)>>,
            <<left(screens[i].position), bottom(screens[i].position)>>} :
              i \in DOMAIN screens}

\* The record of an operation: its name, its input, what it returned, and the
\* requests its handler went on to make.
OpWith(op, arg, ret, requests) ==
    [op |-> op, arg |-> arg, ret |-> ret, requests |-> requests]

Op(op, arg, ret) == OpWith(op, arg, ret, <<>>)

\* Lucky::run has not been called: the operations are called directly.
NotRunning == [process |-> "not_running"]

InitOf(arrangements, configs) ==
    /\ config \in configs
    /\ \E screen_positions \in arrangements :
           screens = ScreenManagerNew(screen_positions, config)
    /\ clients = <<>>
    /\ active_screen = 0
    /\ next_id = 1
    /\ panic = None
    /\ last = Op("new", <<>>, <<>>)
    /\ run = NotRunning

InitWith(arrangements) ==
    /\ config \in Configs
    /\ \E screen_positions \in arrangements :
           screens = ScreenManagerNew(screen_positions, config)
    /\ clients = <<>>
    /\ active_screen = 0
    /\ next_id = 1
    /\ panic = None
    /\ last = Op("new", <<>>, <<>>)
    /\ run = NotRunning

----------------------------------------------------------------------------
(* The operations                                                          *)

CreateClient(frame, window) ==
    /\ panic = None
    /\ clients' = MapInsert(clients, frame,
                            create_client_record(screens, active_screen, frame, window))
    /\ screens' = create_client_screens(screens, active_screen, config, frame)
    /\ next_id' = next_id + 2
    /\ last' = Op("create_client", <<frame, window>>, <<>>)
    /\ UNCHANGED <<run, active_screen, config, panic>>

\* The requests of the Close action after close_focused_client returned ret:
\* none for None; for a client the teardown and, unless the teardown failed
\* (torn_down is false), the redisplay.
close_requests(ret, torn_down) ==
    IF ret = None THEN <<>>
    ELSE IF torn_down THEN <<"close_client", "display_screens">>
    ELSE <<"close_client">>

\* The Close action of ActionHandler::on_key_press.
OnKeyPressClose(torn_down) ==
    /\ panic = None
    /\ \E done \in {close_focused_client(screens, clients, active_screen)} :
           /\ screens' = done.screens
           /\ clients' = done.clients
           /\ last' = OpWith("close_focused_client", <<>>, done.ret,
                             close_requests(done.ret, torn_down))
    /\ UNCHANGED <<run, active_screen, config, next_id, panic>>

FocusClient(window) ==
    /\ panic = None
    /\ \E found \in {focus_client_matches(clients, window)} :
           IF found = {}
           THEN /\ screens' = screens
                /\ last' = Op("focus_client", <<window>>, None)
           ELSE \E client \in found :
                    /\ screens' = focus_client_screens(screens, client)
                    /\ last' = Op("focus_client", <<window>>, Some(client))
    /\ UNCHANGED <<run, clients, active_screen, config, next_id, panic>>

MaybeSwitchScreen(cursor_x, cursor_y) ==
    /\ panic = None
    /\ active_screen' = switched_screen(screens, active_screen, cursor_x, cursor_y)
    /\ last' = Op("maybe_switch_screen", <<cursor_x, cursor_y>>, <<>>)
    /\ UNCHANGED <<run, screens, clients, config, next_id, panic>>

\* A call of TallLayout::focus_client, recorded with the given arguments.
TallFocusClientAs(arg, when_empty, should_change_screen, direction, focus) ==
    /\ panic = None
    /\ \E done \in {TallLayout_focus_client(screens, active_screen, when_empty,
                       should_change_screen, direction, focus, {})} :
           /\ screens' = done.screens
           /\ active_screen' = done.active_screen
           /\ panic' = done.panic
           /\ last' = Op("TallLayout::focus_client", arg, <<done.hops, done.end>>)
    /\ UNCHANGED <<run, clients, config, next_id>>

TallFocusClient(when_empty, should_change_screen, direction, focus) ==
    TallFocusClientAs(<<direction>>, when_empty, should_change_screen, direction, focus)

\* A call of TallLayout::move_client, recorded with the given arguments.
TallMoveClientAs(arg, when_empty, should_change_screen, direction, swap) ==
    /\ panic = None
    /\ \E done \in {TallLayout_move_client(screens, active_screen, when_empty,
                       should_change_screen, direction, swap)} :
           /\ screens' = done.screens
           /\ active_screen' = done.active_screen
           /\ panic' = done.panic
           /\ last' = Op("TallLayout::move_client", arg, <<done.hops, done.end>>)
    /\ UNCHANGED <<run, clients, config, next_id>>

TallMoveClient(when_empty, should_change_screen, direction, swap) ==
    TallMoveClientAs(<<direction>>, when_empty, should_change_screen, direction, swap)

\* Screen::set_active_workspace on one of the screens, with the index of one
\* of its workspaces.
SetActiveWorkspace(screen, workspace) ==
    /\ panic = None
    /\ screens' = [screens EXCEPT ![screen] = set_active_workspace(@, workspace)]
    /\ last' = Op("set_active_workspace", <<screen, workspace>>, <<>>)
    /\ UNCHANGED <<run, clients, active_screen, config, next_id, panic>>

\* The methods of Workspace, called on the active workspace of the active
\* screen with any id: the type itself checks neither freshness nor
\* membership. The record of the operation keeps the receiver it was called
\* on.
WorkspaceIds == {2, 4}

WorkspaceCall(op, client, after) ==
    /\ panic = None
    /\ screens' = [screens EXCEPT ![active_screen] = WithActiveWorkspace(@, after)]
    /\ last' = Op(op, <<active_workspace(screens[active_screen]), client>>, <<>>)
    /\ UNCHANGED <<run, clients, active_screen, config, next_id, panic>>

WorkspaceNewClient(client) ==
    /\ Len(active_workspace(screens[active_screen]).clients) < MaxListLen
    /\ WorkspaceCall("new_client", client,
                     new_client(active_workspace(screens[active_screen]), client))

WorkspaceSetFocusedClient(client) ==
    WorkspaceCall("set_focused_client", client,
                  set_focused_client(active_workspace(screens[active_screen]), client))

WorkspaceRemoveClient(client) ==
    WorkspaceCall("remove_client", client,
                  remove_client(active_workspace(screens[active_screen]), client))

\* ScreenManager::get_visible_screen_clients of one of the screens.
GetVisibleScreenClients(screen) ==
    /\ panic = None
    /\ \E done \in {get_visible_screen_clients(clients, screens[screen])} :
           /\ panic' = done.panic
           /\ last' = Op("get_visible_screen_clients", <<screen>>, done.clients)
    /\ UNCHANGED <<run, screens, clients, active_screen, config, next_id>>

\* TallLayout::display_clients for one of the screens, given the records of
\* its visible clients and the focused record it is handed.
DisplayClients(screen, focused, overflow_checks, failing) ==
    /\ panic = None
    /\ \E done \in {display_clients(Screen_position(screens[screen]),
                                    get_visible_screen_clients(clients, screens[screen]).clients,
                                    focused, config.border_width, overflow_checks,
                                    failing)} :
           /\ panic' = done.panic
           /\ last' = OpWith("display_clients",
                             <<screen, focused, overflow_checks, failing>>,
                             done.ret, done.requests)
    /\ UNCHANGED <<run, screens, clients, active_screen, config, next_id>>

\* A panel or dock registers: the reserved client is recorded and each of
\* its margins is added to the screen's accumulator of that edge.
AddReservedClient(screen, reserved_client) ==
    /\ panic = None
    /\ Len(screens[screen].reserved_clients) < MaxReserved
    /\ \A i \in DOMAIN screens[screen].reserved_clients :
           screens[screen].reserved_clients[i].window # reserved_client.window
    /\ screens' = [screens EXCEPT ![screen] =
           add_reserved_client(
               add_reserved_area(
                   add_reserved_area(
                       add_reserved_area(
                           add_reserved_area(@, "left", reserved_client.reserved_left),
                           "bottom", reserved_client.reserved_bottom),
                       "top", reserved_client.reserved_top),
                   "right", reserved_client.reserved_right),
               reserved_client)]
    /\ last' = Op("add_reserved_client", <<screen, reserved_client>>, <<>>)
    /\ UNCHANGED <<run, clients, active_screen, config, next_id, panic>>

\* The panel or dock at the given index goes away: each of its margins is
\* subtracted from the accumulator of its edge and its record is removed.
RemoveReservedClient(screen, reserved_client_idx, overflow_checks) ==
    /\ panic = None
    /\ reserved_client_idx + 1 \in DOMAIN screens[screen].reserved_clients
    /\ \E reserved_client \in {screens[screen].reserved_clients[reserved_client_idx + 1]} :
       \E l \in {sub_reserved_area(screens[screen], "left", reserved_client.reserved_left)} :
       \E b \in {sub_reserved_area(l.screen, "bottom", reserved_client.reserved_bottom)} :
       \E t \in {sub_reserved_area(b.screen, "top", reserved_client.reserved_top)} :
       \E r \in {sub_reserved_area(t.screen, "right", reserved_client.reserved_right)} :
           IF overflow_checks /\ (l.overflow \/ b.overflow \/ t.overflow \/ r.overflow)
           THEN /\ panic' = Some(ArithmeticOverflow)
                /\ screens' = screens
                /\ last' = Op("remove_reserved_client",
                              <<screen, reserved_client_idx>>, <<>>)
           ELSE /\ panic' = panic
                /\ screens' = [screens EXCEPT ![screen] =
                       remove_reserved_client(r.screen, reserved_client_idx)]
                /\ last' = Op("remove_reserved_client",
                              <<screen, reserved_client_idx>>, <<>>)
    /\ UNCHANGED <<run, clients, active_screen, config, next_id>>

\* Screen::get_available_area on one of the screens, in either build.
GetAvailableArea(screen, overflow_checks) ==
    /\ panic = None
    /\ \E area \in {get_available_area(screens[screen])} :
           IF overflow_checks /\ area.overflow
           THEN /\ panic' = Some(ArithmeticOverflow)
                /\ last' = Op("get_available_area", <<screen, overflow_checks>>, None)
           ELSE /\ panic' = panic
                /\ last' = Op("get_available_area", <<screen, overflow_checks>>,
                              Some(area.position))
    /\ UNCHANGED <<run, screens, clients, active_screen, config, next_id>>

\* The display server emits an event of some kind.
ServerEmit(kind) ==
    /\ run.process = "running"
    /\ Len(run.emitted) < MaxEvents
    /\ run' = [run EXCEPT !.emitted = Append(@, kind)]
    /\ UNCHANGED <<screens, clients, active_screen, config, next_id, panic, last>>

\* conn.wait_for_event() returns the next event and the producer matches it.
ProducerWait ==
    /\ run.process = "running"
    /\ run.producer.pc = "wait_for_event"
    /\ run.taken < Len(run.emitted)
    /\ run' = producer_match(run, run.taken + 1)
    /\ UNCHANGED <<screens, clients, active_screen, config, next_id, panic, last>>

ProducerSend ==
    /\ run.process = "running"
    /\ run.producer.pc = "send"
    /\ run' = producer_send(run)
    /\ UNCHANGED <<screens, clients, active_screen, config, next_id, panic, last>>

\* conn.flush().unwrap(), and the loop starts again.
ProducerFlush ==
    /\ run.process = "running"
    /\ run.producer.pc = "flush"
    /\ run' = [run EXCEPT !.producer.pc = "wait_for_event"]
    /\ UNCHANGED <<screens, clients, active_screen, config, next_id, panic, last>>

\* receiver.recv() returns an event and the consumer calls its handler.
ConsumerRecv ==
    /\ run.process = "running"
    /\ can_recv(run)
    /\ \E event \in {received(run)} :
           /\ run' = consumer_match(run, event)
           /\ last' = IF run.emitted[event] \in Forwarded
                      THEN Op(HandlerOf(run.emitted[event]), <<event>>, <<>>)
                      ELSE last
    /\ UNCHANGED <<screens, clients, active_screen, config, next_id, panic>>

\* What a handler may do to the window-manager state before it returns.
HandlerEffects == {"none", "create_client", "close_focused_client"}

\* What the handler's chain of calls came to: every request was accepted, or
\* one was rejected and the anyhow error was passed up with `?`.
HandlerResults == {"Ok", "Err"}

\* A consumer that leaves its loop when the handler's calls failed.
handler_returned_or_exit(r, result) ==
    IF result = "Err"
    THEN [r EXCEPT !.consumer.pc = "unwinding", !.receiver = FALSE,
                   !.failed = @ \cup {r.consumer.event}]
    ELSE [r EXCEPT !.consumer.pc = "recv"]

\* The match arm's call has returned (), whatever its calls came to, and the
\* loop comes round to receiver.recv().
handler_returned(r, result) ==
    [r EXCEPT !.consumer.pc = "recv",
              !.failed = IF result = "Err" THEN @ \cup {r.consumer.event} ELSE @]

\* The running handler returns, having changed the state.
ConsumerHandlerReturn(effect, result) ==
    /\ run.process = "running"
    /\ run.consumer.pc = "handler"
    /\ run' = handler_returned(run, result)
    /\ CASE effect = "none" -> UNCHANGED <<screens, clients, next_id>>
         [] effect = "create_client" ->
                /\ clients' = MapInsert(clients, next_id + 1,
                                  create_client_record(screens, active_screen,
                                                       next_id + 1, next_id))
                /\ screens' = create_client_screens(screens, active_screen, config,
                                                    next_id + 1)
                /\ next_id' = next_id + 2
         [] effect = "close_focused_client" ->
                \E done \in {close_focused_client(screens, clients, active_screen)} :
                    /\ screens' = done.screens
                    /\ clients' = done.clients
                    /\ next_id' = next_id
    /\ UNCHANGED <<active_screen, config, panic, last>>

\* The running handler panics (an action that is todo!()): the main thread
\* unwinds and drops the receiver.
ConsumerHandlerPanic ==
    /\ run.process = "running"
    /\ run.consumer.pc = "handler"
    /\ run.emitted[run.consumer.event] = "KeyPress"
    /\ run' = [run EXCEPT !.consumer.pc = "unwinding", !.receiver = FALSE]
    /\ UNCHANGED <<screens, clients, active_screen, config, next_id, panic, last>>

\* The main thread has unwound: the process exits.
ConsumerExit ==
    /\ run.process = "running"
    /\ run.consumer.pc = "unwinding"
    /\ run' = [run EXCEPT !.process = "exited"]
    /\ UNCHANGED <<screens, clients, active_screen, config, next_id, panic, last>>

\* The record of the focused client of a screen's active workspace, if any.
FocusedRecord(screen) ==
    IF focused_client(screens[screen]) = None THEN None
    ELSE MapGet(clients, focused_client(screens[screen])[1])

NextWith(max_clients) ==
    \/ next_id < 2 * max_clients /\ CreateClient(next_id + 1, next_id)
    \/ \E torn_down \in BOOLEAN : OnKeyPressClose(torn_down)
    \/ \E window \in NotifiedIds : FocusClient(window)
    \/ \E point \in CursorPoints : MaybeSwitchScreen(point[1], point[2])
    \/ \E when_empty \in WhenEmpty, should_change_screen \in Boundaries,
          direction \in Directions, focus \in FocusOperators :
           TallFocusClient(when_empty, should_change_screen, direction, focus)
    \/ \E when_empty \in WhenEmpty, should_change_screen \in Boundaries,
          direction \in Directions, swap \in SwapOperators :
           TallMoveClient(when_empty, should_change_screen, direction, swap)

\* The same operations, the navigations recorded with the direction, the
\* boundary predicate and the terminal operator they were called with.
NextNavWith(max_clients) ==
    \/ next_id < 2 * max_clients /\ CreateClient(next_id + 1, next_id)
    \/ \E torn_down \in BOOLEAN : OnKeyPressClose(torn_down)
    \/ \E window \in NotifiedIds : FocusClient(window)
    \/ \E point \in CursorPoints : MaybeSwitchScreen(point[1], point[2])
    \/ \E when_empty \in WhenEmpty, should_change_screen \in Boundaries,
          direction \in Directions, focus \in FocusOperators :
           TallFocusClientAs(<<direction, should_change_screen, focus>>,
                             when_empty, should_change_screen, direction, focus)
    \/ \E when_empty \in WhenEmpty, should_change_screen \in Boundaries,
          direction \in Directions, swap \in SwapOperators :
           TallMoveClientAs(<<direction, should_change_screen, swap>>,
                            when_empty, should_change_screen, direction, swap)

\* The mirrored monitors (and the single one).
Init == InitWith({ArrSingle, ArrMirror})
Next == NextWith(MaxClients)
Spec == Init /\ [][Next]_vars

\* The single monitor, with more clients.
InitSingle == InitWith({ArrSingle})
NextSingle == NextWith(MaxClientsSingle)
SpecSingle == InitSingle /\ [][NextSingle]_vars

\* The grid of nine monitors (and the single one).
InitGrid == InitWith({ArrGrid, ArrSingle})
NextGrid == NextWith(MaxClientsGrid)
SpecGrid == InitGrid /\ [][NextGrid]_vars

\* The mirrored monitors (and the single one), with workspace switching.
InitWorkspaces == InitWith({ArrSingle, ArrMirror})
NextWorkspaces ==
    \/ NextWith(MaxClientsWorkspaces)
    \/ \E screen \in DOMAIN screens, workspace \in 0..(config.workspaces - 1) :
           SetActiveWorkspace(screen, workspace)
SpecWorkspaces == InitWorkspaces /\ [][NextWorkspaces]_vars

\* Navigation on the single monitor.
InitNavSingle == InitWith({ArrSingle})
NextNavSingle == NextNavWith(MaxClientsNavSingle)
SpecNavSingle == InitNavSingle /\ [][NextNavSingle]_vars

\* Navigation on the mirrored monitors.
InitNav == InitWith({ArrMirror})
NextNav == NextNavWith(MaxClientsNav)
SpecNav == InitNav /\ [][NextNav]_vars

\* Navigation on the row of three monitors.
InitNavRow == InitWith({ArrRow})
NextNavRow == NextNavWith(MaxClientsNavRow)
SpecNavRow == InitNavRow /\ [][NextNavRow]_vars

\* Navigation on the monitor of width zero and its neighbour.
InitNavZeroWidth == InitWith({ArrZeroWidth})
SpecNavZeroWidth == InitNavZeroWidth /\ [][NextNav]_vars

\* The layout of one screen of every size, for every border width.
InitLayout == InitOf(LayoutArrangements, LayoutConfigs)
NextLayout ==
    \/ next_id < 2 * MaxVisible /\ CreateClient(next_id + 1, next_id)
    \/ \E overflow_checks \in BOOLEAN :
           DisplayClients(active_screen, FocusedRecord(active_screen), overflow_checks, 0)
SpecLayout == InitLayout /\ [][NextLayout]_vars

\* The requests of display_clients: on the single monitor and on a screen of
\* one pixel, with workspace switching, for every focused record handed in,
\* either build and every failing Decorator call.
TinyScreen == <<Position(1920, -1080, 1, 1)>>

InitDisplay == InitOf({ArrSingle, TinyScreen}, LayoutConfigs)
NextDisplay ==
    \/ next_id < 2 * MaxVisible /\ CreateClient(next_id + 1, next_id)
    \/ \E workspace \in 0..(config.workspaces - 1) :
           SetActiveWorkspace(active_screen, workspace)
    \/ \E focused \in {None} \cup {Some(clients[frame]) : frame \in DOMAIN clients},
          overflow_checks \in BOOLEAN, failing \in 0..(MaxVisible + 1) :
           DisplayClients(active_screen, focused, overflow_checks, failing)
SpecDisplay == InitDisplay /\ [][NextDisplay]_vars

\* The reserved margins: panels and docks come and go on a small screen and
\* on the single monitor, the available area is read and the clients are
\* laid out.
SmallScreen == <<Position(1920, -1080, 4, 3)>>

ReservedWindows == {1001, 1002}

ReservedClients ==
    {ReservedClient(window, edge, amount) :
        window \in ReservedWindows, edge \in Edges, amount \in 1..MaxMargin}

InitReserved == InitOf({ArrSingle, SmallScreen}, {cfg \in LayoutConfigs : cfg.focus_new_clients})
NextReserved ==
    \/ next_id < 2 * MaxClientsReserved /\ CreateClient(next_id + 1, next_id)
    \/ \E reserved_client \in ReservedClients :
           AddReservedClient(active_screen, reserved_client)
    \/ \E reserved_client_idx \in 0..(MaxReserved - 1), overflow_checks \in BOOLEAN :
           RemoveReservedClient(active_screen, reserved_client_idx, overflow_checks)
    \/ \E overflow_checks \in BOOLEAN : GetAvailableArea(active_screen, overflow_checks)
    \/ \E overflow_checks \in BOOLEAN :
           DisplayClients(active_screen, FocusedRecord(active_screen), overflow_checks, 0)
SpecReserved == InitReserved /\ [][NextReserved]_vars

\* Lucky::run on the single monitor: the server, the producer thread and the
\* consumer, interleaved in every way.
InitRun ==
    /\ config \in {cfg \in Configs : cfg.focus_new_clients}
    /\ screens = ScreenManagerNew(ArrSingle, config)
    /\ clients = <<>>
    /\ active_screen = 0
    /\ next_id = 1
    /\ panic = None
    /\ last = Op("new", <<>>, <<>>)
    /\ run = RunNew
Producer == ProducerWait \/ ProducerSend \/ ProducerFlush
Consumer ==
    \/ ConsumerRecv
    \/ \E effect \in HandlerEffects, result \in HandlerResults :
           ConsumerHandlerReturn(effect, result)
    \/ ConsumerHandlerPanic
    \/ ConsumerExit
NextRun ==
    \/ \E kind \in EventKinds : ServerEmit(kind)
    \/ Producer
    \/ Consumer
SpecRun == InitRun /\ [][NextRun]_vars

\* The same with both threads scheduled again and again: neither is starved
\* while it has a step to take. The server emits when it pleases.
SpecRunFair == SpecRun /\ WF_vars(Producer) /\ WF_vars(Consumer)

\* One workspace driven through its own methods.
InitWorkspace == InitWith({ArrSingle})
NextWorkspace ==
    \/ \E client \in WorkspaceIds : WorkspaceNewClient(client)
    \/ \E client \in {None} \cup {Some(id) : id \in WorkspaceIds} :
           WorkspaceSetFocusedClient(client)
    \/ \E client \in WorkspaceIds : WorkspaceRemoveClient(client)
SpecWorkspace == InitWorkspace /\ [][NextWorkspace]_vars

\* The same with registered clients and the lookup of their records: the
\* lists may name frames the client map does not hold.
InitLookup == InitWith({ArrSingle})
NextLookup ==
    \/ NextWorkspace
    \/ next_id < 2 * MaxClientsLookup /\ CreateClient(next_id + 1, next_id)
    \/ \E screen \in DOMAIN screens : GetVisibleScreenClients(screen)
SpecLookup == InitLookup /\ [][NextLookup]_vars

----------------------------------------------------------------------------
(* Properties of ScreenManager                                             *)

\* The active workspace of the active screen, before and after a step.
ActiveBefore == active_workspace(screens[active_screen])
ActiveAfter == active_workspace(screens'[active_screen'])

\* Every (screen, workspace) pair.
WorkspaceSlots ==
    {<<s, w>> : s \in DOMAIN screens, w \in 0..(config.workspaces - 1)}

\* Every workspace but the active workspace of the active screen is left as
\* it was by the step.
OtherWorkspacesUnchanged ==
    \A slot \in WorkspaceSlots :
        slot # <<active_screen, screens[active_screen].active_workspace>>
            => screens'[slot[1]].workspaces[slot[2]] = screens[slot[1]].workspaces[slot[2]]

\* No screen's position or active-workspace index changes in the step.
ScreenShapeUnchanged ==
    /\ DOMAIN screens' = DOMAIN screens
    /\ \A s \in DOMAIN screens :
           /\ screens'[s].position = screens[s].position
           /\ screens'[s].active_workspace = screens[s].active_workspace

\* C1: create_client(frame, window) focuses the new frame on the active
\* screen's active workspace if and only if focus_new_clients is set or the
\* frame is the workspace's only client after insertion; with the flag
\* disabled an existing focus on a non-empty workspace stays as it was, and an
\* empty workspace always ends up focused on the new client.
C1_CreateClientFocus ==
    [][last'.op = "create_client" =>
        LET frame == last'.arg[1]
        IN  /\ (ActiveAfter.focused_client = Some(frame))
                   <=> (config.focus_new_clients \/ Len(ActiveAfter.clients) = 1)
            /\ (~config.focus_new_clients /\ ActiveBefore.clients # <<>>)
                   => ActiveAfter.focused_client = ActiveBefore.focused_client
            /\ ActiveBefore.clients = <<>>
                   => ActiveAfter.focused_client = Some(frame)]_vars

\* create_client has run with the flag disabled on a workspace that had a
\* focused client, which kept the focus.
C1_Witness ==
    /\ last.op = "create_client"
    /\ ~config.focus_new_clients
    /\ Len(active_workspace(screens[active_screen]).clients) >= 2
    /\ focused_client(screens[active_screen]) # None
    /\ focused_client(screens[active_screen]) # Some(last.arg[1])

\* C2: create_client(frame, window) adds exactly one map entry, keyed by
\* frame, holding that window, visible = true and the id of the active
\* screen's active workspace, and appends frame at the tail of that
\* workspace's list; every other workspace of every screen and the
\* active-screen index stay as they were.
C2_CreateClientFrame ==
    [][last'.op = "create_client" =>
        LET frame == last'.arg[1]
            window == last'.arg[2]
        IN  /\ frame \notin DOMAIN clients
            /\ DOMAIN clients' = DOMAIN clients \cup {frame}
            /\ \A f \in DOMAIN clients : clients'[f] = clients[f]
            /\ clients'[frame] = [frame |-> frame, window |-> window, visible |-> TRUE,
                                  workspace |-> ActiveBefore.id]
            /\ ActiveAfter.clients = ActiveBefore.clients \o <<frame>>
            /\ ActiveAfter.id = ActiveBefore.id
            /\ OtherWorkspacesUnchanged
            /\ ScreenShapeUnchanged
            /\ active_screen' = active_screen]_vars

\* create_client has run on a workspace that already held a client, on a
\* manager of several screens, and the new frame is at the tail.
C2_Witness ==
    /\ last.op = "create_client"
    /\ Len(active_workspace(screens[active_screen]).clients) >= 2
    /\ Last(active_workspace(screens[active_screen]).clients) = Some(last.arg[1])
    /\ last.arg[1] \in DOMAIN clients
    /\ Cardinality(DOMAIN screens) > 1

\* The list without its element at 1-based position i.
WithoutAt(list, i) ==
    [k \in 1..(Len(list) - 1) |-> IF k < i THEN list[k] ELSE list[k + 1]]

\* C3: close_focused_client, when the active screen's active workspace has a
\* focused client F, removes F from that workspace's list keeping the order of
\* the others, removes F from the client map, focuses the first remaining
\* client (or none when the list became empty) and returns the map entry F had.
C3_CloseFocused ==
    [][(last'.op = "close_focused_client" /\ ActiveBefore.focused_client # None) =>
        LET F == ActiveBefore.focused_client[1]
        IN  /\ \E i \in DOMAIN ActiveBefore.clients :
                   /\ ActiveBefore.clients[i] = F
                   /\ ActiveAfter.clients = WithoutAt(ActiveBefore.clients, i)
            /\ F \notin Range(ActiveAfter.clients)
            /\ F \in DOMAIN clients
            /\ DOMAIN clients' = DOMAIN clients \ {F}
            /\ \A f \in DOMAIN clients' : clients'[f] = clients[f]
            /\ ActiveAfter.focused_client =
                   IF ActiveAfter.clients = <<>> THEN None
                   ELSE Some(ActiveAfter.clients[1])
            /\ last'.ret = Some(clients[F])]_vars

\* The example of the specification: order [A, B, C] with the focus on B has
\* become [A, C] with the focus on A, and B's record was returned (A, B and C
\* are the frames 2, 4 and 6 of the first three clients).
C3_Witness ==
    /\ last.op = "close_focused_client"
    /\ last.ret # None
    /\ last.ret[1].frame = 4
    /\ active_workspace(screens[active_screen]).clients = <<2, 6>>
    /\ focused_client(screens[active_screen]) = Some(2)

\* C4: close_focused_client, when the active screen's active workspace has no
\* focused client, returns none and changes neither the client map nor any
\* workspace nor the active-screen index, and the Close action makes no
\* teardown and no redisplay request.
C4_CloseNothing ==
    [][(last'.op = "close_focused_client" /\ ActiveBefore.focused_client = None) =>
        /\ last'.ret = None
        /\ clients' = clients
        /\ screens' = screens
        /\ active_screen' = active_screen
        /\ last'.requests = <<>>]_vars

\* The Close action has run on a workspace that holds a client but focuses
\* none.
C4_Witness ==
    /\ last.op = "close_focused_client"
    /\ last.ret = None
    /\ active_workspace(screens[active_screen]).clients # <<>>
    /\ focused_client(screens[active_screen]) = None

----------------------------------------------------------------------------
(* Properties of the spatial queries                                       *)

\* The screens satisfying the half-plane test of a direction relative to the
\* active screen's rectangle.
HalfPlane(direction) ==
    LET active == screens[active_screen].position
    IN  {idx \in DOMAIN screens :
            LET candidate == screens[idx].position
            IN  CASE direction = "Left" -> right(candidate) <= left(active)
                  [] direction = "Right" -> left(candidate) >= right(active)
                  [] direction = "Up" -> bottom(candidate) <= top(active)
                  [] direction = "Down" -> top(candidate) >= bottom(active)}

\* The squared Euclidean distance between the top-left corners of a screen
\* and of the active screen (the distance is monotone in it).
CornerDistanceSquared(idx) ==
    distance_squared(left(screens[idx].position), top(screens[idx].position),
                     left(screens[active_screen].position),
                     top(screens[active_screen].position))

\* C5: get_relative_screen_idx(direction) returns none exactly when no screen
\* satisfies the direction's half-plane test relative to the active screen;
\* otherwise it returns a screen that satisfies the test and whose top-left
\* corner is at the minimum Euclidean distance from the active screen's
\* top-left corner among all screens satisfying the test.
C5_NearestInHalfPlane ==
    \A direction \in Directions :
        LET found == get_relative_screen_idx(screens, active_screen, direction)
        IN  /\ (found = None) <=> (HalfPlane(direction) = {})
            /\ found # None =>
                   /\ found[1] \in HalfPlane(direction)
                   /\ \A other \in HalfPlane(direction) :
                          CornerDistanceSquared(found[1]) <= CornerDistanceSquared(other)

\* The screen list holds exactly the given arrangement.
Arranged(arrangement) ==
    /\ DOMAIN screens = 0..(Len(arrangement) - 1)
    /\ \A idx \in DOMAIN screens : screens[idx].position = arrangement[idx + 1]

\* The position of the screen get_relative_screen_idx resolves to, if any.
RelativePosition(direction) ==
    LET found == get_relative_screen_idx(screens, active_screen, direction)
    IN  IF found = None THEN None ELSE Some(screens[found[1]].position)

\* C6: on the grid of nine monitors with the one at (1920, 0) active, Left,
\* Right, Down and Up resolve to the monitors at (0, 0), (3840, 0),
\* (1920, 1080) and (1920, -1080); on a manager holding a single screen every
\* direction resolves to none.
C6_GridNeighbours ==
    /\ (Arranged(ArrGrid) /\ active_screen = 0) =>
           /\ RelativePosition("Left") = Some(Position(0, 0, 1920, 1080))
           /\ RelativePosition("Right") = Some(Position(3840, 0, 1920, 1080))
           /\ RelativePosition("Down") = Some(Position(1920, 1080, 1920, 1080))
           /\ RelativePosition("Up") = Some(Position(1920, -1080, 1920, 1080))
    /\ Cardinality(DOMAIN screens) = 1 =>
           \A direction \in Directions : RelativePosition(direction) = None

\* On the grid, a navigation to the left has hopped once and landed on the
\* monitor at (0, 0), which only the monitor at (1920, 0) has as its nearest
\* left neighbour.
C6_Witness ==
    /\ Arranged(ArrGrid)
    /\ last.op = "TallLayout::focus_client"
    /\ last.arg = <<"Left">>
    /\ last.ret[1] = 1
    /\ screens[active_screen].position = Position(0, 0, 1920, 1080)
    /\ RelativePosition("Right") = Some(Position(1920, 0, 1920, 1080))

\* The screens whose rectangle contains the point, by half-open containment.
Containing(x, y) ==
    {idx \in DOMAIN screens :
        /\ left(screens[idx].position) <= x /\ x < right(screens[idx].position)
        /\ top(screens[idx].position) <= y /\ y < bottom(screens[idx].position)}

\* C7: maybe_switch_screen uses half-open containment: a point with
\* left <= x < right and top <= y < bottom of exactly one screen makes that
\* screen the active one, and a point lying on a screen's right or bottom edge
\* does not make that screen the active one.
C7_HalfOpenContainment ==
    [][last'.op = "maybe_switch_screen" =>
        LET x == last'.arg[1]
            y == last'.arg[2]
        IN  /\ Cardinality(Containing(x, y)) = 1 => active_screen' \in Containing(x, y)
            /\ \A idx \in DOMAIN screens :
                   (/\ \/ x = right(screens[idx].position)
                       \/ y = bottom(screens[idx].position)
                    /\ idx # active_screen)
                       => active_screen' # idx]_vars

\* The pointer was on the bottom edge of the last mirrored monitor, inside the
\* panned one only, which is now the active screen.
C7_Witness ==
    /\ last.op = "maybe_switch_screen"
    /\ Arranged(ArrMirror)
    /\ last.arg = <<0, 1080>>
    /\ last.arg[2] = bottom(screens[2].position)
    /\ Containing(0, 1080) = {1}
    /\ active_screen = 1

\* No workspace list, no focus and no client-map entry changes in the step.
ClientsAndWorkspacesUnchanged ==
    /\ clients' = clients
    /\ DOMAIN screens' = DOMAIN screens
    /\ \A idx \in DOMAIN screens : screens'[idx].workspaces = screens[idx].workspaces

\* C8: maybe_switch_screen, when several rectangles contain the point, makes
\* the containing screen of the highest index the active one; when none
\* contains it the active-screen index is unchanged; in every case no
\* workspace list, focus or client-map entry changes.
C8_LastContainingWins ==
    [][last'.op = "maybe_switch_screen" =>
        LET inside == Containing(last'.arg[1], last'.arg[2])
        IN  /\ inside # {} =>
                   active_screen' \in inside /\ \A idx \in inside : idx <= active_screen'
            /\ inside = {} => active_screen' = active_screen
            /\ ClientsAndWorkspacesUnchanged]_vars

\* The pointer was inside both mirrored monitors, while clients exist, and
\* the later of the two is now the active screen.
C8_Witness ==
    /\ last.op = "maybe_switch_screen"
    /\ Arranged(ArrMirror)
    /\ last.arg = <<0, 1>>
    /\ Containing(0, 1) = {1, 2}
    /\ active_screen = 2
    /\ DOMAIN clients # {}

\* Only the focus of workspaces may differ after the step.
OnlyFocusMayChange ==
    /\ ScreenShapeUnchanged
    /\ \A slot \in WorkspaceSlots :
           /\ screens'[slot[1]].workspaces[slot[2]].clients
                  = screens[slot[1]].workspaces[slot[2]].clients
           /\ screens'[slot[1]].workspaces[slot[2]].id
                  = screens[slot[1]].workspaces[slot[2]].id

\* C9: ScreenManager::focus_client(id): if a client of the map has window = id
\* or frame = id, every screen whose active workspace lists that client's
\* frame gets its focus set to the frame and every other workspace keeps its
\* focus; if no client matches nothing changes. In both cases the
\* active-screen index, the client lists and the client map are unchanged.
C9_FocusClient ==
    [][last'.op = "focus_client" =>
        LET id == last'.arg[1]
            matching == {f \in DOMAIN clients :
                            clients[f].window = id \/ clients[f].frame = id}
        IN  /\ active_screen' = active_screen
            /\ clients' = clients
            /\ OnlyFocusMayChange
            /\ matching = {} => screens' = screens
            /\ matching # {} =>
                   \E f \in matching :
                       \A slot \in WorkspaceSlots :
                           screens'[slot[1]].workspaces[slot[2]].focused_client =
                               IF /\ slot[2] = screens[slot[1]].active_workspace
                                  /\ f \in Range(screens[slot[1]].workspaces[slot[2]].clients)
                               THEN Some(f)
                               ELSE screens[slot[1]].workspaces[slot[2]].focused_client]_vars

\* focus_client was given the window id of the second client, which new
\* clients do not take the focus to, and that client's frame has the focus.
C9_Witness ==
    /\ last.op = "focus_client"
    /\ ~config.focus_new_clients
    /\ last.arg = <<3>>
    /\ last.ret # None
    /\ last.ret[1].window = 3
    /\ last.ret[1].frame = 4
    /\ Len(active_workspace(screens[active_screen]).clients) = 2
    /\ focused_client(screens[active_screen]) = Some(4)

\* Every frame listed in any workspace of any screen.
ListedFrames ==
    UNION {Range(screens[slot[1]].workspaces[slot[2]].clients) : slot \in WorkspaceSlots}

\* C10: in every reachable state every frame listed in a workspace has an
\* entry in the client map and every entry of the client map is listed in
\* some workspace.
C10_MapListConsistent ==
    /\ \A frame \in ListedFrames : frame \in DOMAIN clients
    /\ \A frame \in DOMAIN clients : frame \in ListedFrames

\* move_client has carried a client to another screen.
C10_Witness ==
    /\ last.op = "TallLayout::move_client"
    /\ last.ret = <<1, "moved">>
    /\ \E idx \in DOMAIN screens :
           idx # active_screen /\ active_workspace(screens[idx]).clients # <<>>

----------------------------------------------------------------------------
(* Invariants of the data model                                            *)

\* C11: in every reachable state each workspace's focused id, if set, is an
\* element of that workspace's client list.
C11_FocusIsMember ==
    \A slot \in WorkspaceSlots :
        LET ws == screens[slot[1]].workspaces[slot[2]]
        IN  ws.focused_client # None => ws.focused_client[1] \in Range(ws.clients)

\* move_client has carried the focused client to another screen and left a
\* client behind on a workspace that now focuses none.
C11_Witness ==
    /\ last.op = "TallLayout::move_client"
    /\ last.ret = <<1, "moved">>
    /\ active_workspace(screens[active_screen]).clients # <<>>
    /\ focused_client(screens[active_screen]) = None
    /\ \E idx \in DOMAIN screens :
           idx # active_screen /\ active_workspace(screens[idx]).clients # <<>>

\* The indices are in range: the active screen is one of the screens and each
\* screen's active workspace is one of its workspaces.
IndicesInRange ==
    /\ active_screen \in DOMAIN screens
    /\ DOMAIN screens = 0..(Cardinality(DOMAIN screens) - 1)
    /\ \A idx \in DOMAIN screens :
           /\ DOMAIN screens[idx].workspaces
                  = 0..(Cardinality(DOMAIN screens[idx].workspaces) - 1)
           /\ screens[idx].active_workspace \in DOMAIN screens[idx].workspaces

\* No step changes the number of screens or of workspaces of a screen.
CountsUnchanged ==
    /\ DOMAIN screens' = DOMAIN screens
    /\ \A idx \in DOMAIN screens :
           DOMAIN screens'[idx].workspaces = DOMAIN screens[idx].workspaces

\* C12: in every reachable state the active-screen index is less than the
\* number of screens and each screen's active-workspace index is less than
\* its workspace count, and no step after ScreenManager::new changes the
\* number of screens or the number of workspaces of a screen.
C12_IndicesAndCounts == [](IndicesInRange) /\ [][CountsUnchanged]_vars

\* The last screen is the active one, and its last workspace has just been
\* made its active workspace.
C12_Witness ==
    /\ last.op = "set_active_workspace"
    /\ Cardinality(DOMAIN screens) > 1
    /\ active_screen = Cardinality(DOMAIN screens) - 1
    /\ last.arg = <<active_screen, config.workspaces - 1>>
    /\ screens[active_screen].active_workspace = config.workspaces - 1
    /\ config.workspaces > 1

----------------------------------------------------------------------------
(* Properties of Workspace and of the client lookup                        *)

\* The positions of a list that hold another id than the given one.
KeptPositions(list, id) == {i \in DOMAIN list : list[i] # id}

\* The k-th smallest of a set of positions.
KthPosition(positions, k) ==
    CHOOSE i \in positions : Cardinality({j \in positions : j <= i}) = k

\* C13: Workspace::remove_client(id) removes every occurrence of id from the
\* client list, keeps the relative order of the other entries, clears the
\* focus if and only if the focused id was id, and otherwise leaves the focus
\* unchanged.
C13_RemoveClient ==
    [][last'.op = "remove_client" =>
        LET before == last'.arg[1]
            id == last'.arg[2]
            after == ActiveAfter
            kept == KeptPositions(before.clients, id)
        IN  /\ before = ActiveBefore
            /\ id \notin Range(after.clients)
            /\ Len(after.clients) = Cardinality(kept)
            /\ \A k \in DOMAIN after.clients :
                   after.clients[k] = before.clients[KthPosition(kept, k)]
            /\ (after.focused_client = None /\ before.focused_client # None)
                   <=> before.focused_client = Some(id)
            /\ before.focused_client # Some(id)
                   => after.focused_client = before.focused_client
            /\ after.id = before.id]_vars

\* remove_client(2) was called on the list [2, 4, 2] focused on 2 and left
\* the list [4] with no focus.
C13_Witness ==
    /\ last.op = "remove_client"
    /\ last.arg[1].clients = <<2, 4, 2>>
    /\ last.arg[1].focused_client = Some(2)
    /\ last.arg[2] = 2
    /\ active_workspace(screens[active_screen]).clients = <<4>>
    /\ focused_client(screens[active_screen]) = None

\* C14: get_visible_screen_clients(screen) returns the Client records of the
\* screen's active workspace in the order of the workspace's client-id list,
\* and panics if a listed id has no entry in the client map.
C14_VisibleClients ==
    [][last'.op = "get_visible_screen_clients" =>
        LET ids == active_workspace(screens[last'.arg[1]]).clients
            records == last'.ret
        IN  /\ (\E i \in DOMAIN ids : ids[i] \notin DOMAIN clients) <=> panic' # None
            /\ panic' = None =>
                   /\ Len(records) = Len(ids)
                   /\ \A i \in DOMAIN ids :
                          records[i].frame = ids[i] /\ records[i] = clients[ids[i]]
            /\ UNCHANGED <<screens, clients, active_screen>>]_vars

\* The lookup has returned the records of a list that names two registered
\* clients, the later one first.
C14_Witness ==
    /\ last.op = "get_visible_screen_clients"
    /\ panic = None
    /\ active_workspace(screens[last.arg[1]]).clients = <<4, 2, 4>>
    /\ Len(last.ret) = 3
    /\ last.ret[1].window = 3
    /\ last.ret[2].window = 1

----------------------------------------------------------------------------
(* Properties of the TallLayout navigation                                 *)

\* The step is a call of TallLayout::focus_client or TallLayout::move_client.
IsNavigation == last'.op \in {"TallLayout::focus_client", "TallLayout::move_client"}

\* No client list of any workspace changes in the step.
ListsUnchanged ==
    /\ DOMAIN screens' = DOMAIN screens
    /\ \A slot \in WorkspaceSlots :
           screens'[slot[1]].workspaces[slot[2]].clients
               = screens[slot[1]].workspaces[slot[2]].clients

\* C15: when TallLayout::focus_client or TallLayout::move_client is called
\* and the active screen's active workspace has at least one client but no
\* focused client, the when_empty callback is invoked (focus_last makes the
\* last client focused) and the operation stops without changing the active
\* screen or any client list.
C15_WhenEmptyInvoked ==
    [][(/\ IsNavigation
        /\ ActiveBefore.clients # <<>>
        /\ ActiveBefore.focused_client = None) =>
           /\ panic' = None
           /\ ActiveAfter.focused_client = Last(ActiveBefore.clients)
           /\ active_screen' = active_screen
           /\ ListsUnchanged]_vars

\* The step is a call of TallLayout::focus_client with the given direction,
\* boundary predicate and terminal operator, on a manager of a single screen.
SingleScreenFocus(direction, boundary, operator) ==
    /\ last'.op = "TallLayout::focus_client"
    /\ last'.arg = <<direction, boundary, operator>>
    /\ Cardinality(DOMAIN screens) = 1

\* C16: on a single-screen manager, TallLayout::focus_client with
\* (focus_last, is_first, Right, focus_prev) moves the focus from the first
\* client of a two-client workspace to the second client, and a further such
\* call with the focus on the last client leaves the focus on that client.
C16_RightFocus ==
    [][SingleScreenFocus("Right", "is_first", "focus_prev") =>
        /\ (/\ Len(ActiveBefore.clients) = 2
            /\ ActiveBefore.focused_client = Some(ActiveBefore.clients[1]))
               => ActiveAfter.focused_client = Some(ActiveBefore.clients[2])
        /\ (/\ Len(ActiveBefore.clients) = 2
            /\ ActiveBefore.focused_client = Some(ActiveBefore.clients[2]))
               => ActiveAfter.focused_client = Some(ActiveBefore.clients[2])]_vars

\* C17: on a single-screen manager, TallLayout::focus_client with
\* (focus_last, is_first, Left, focus_first) moves the focus from any
\* non-first client to the first client of the workspace, and with the focus
\* already on the first client it leaves the focus, the client list and the
\* active screen unchanged.
C17_LeftFocus ==
    [][(/\ SingleScreenFocus("Left", "is_first", "focus_first")
        /\ ActiveBefore.focused_client # None
        /\ ActiveBefore.focused_client[1] \in Range(ActiveBefore.clients)) =>
           /\ panic' = None
           /\ ActiveAfter.focused_client = Some(ActiveBefore.clients[1])
           /\ ActiveBefore.focused_client = Some(ActiveBefore.clients[1])
                  => (screens' = screens /\ clients' = clients)
           /\ ListsUnchanged
           /\ active_screen' = active_screen]_vars

\* The Left-focus has run its operator on a list of three clients (the focus
\* was not on the first one) and the first client has the focus.
C17_Witness ==
    /\ last.op = "TallLayout::focus_client"
    /\ last.arg = <<"Left", "is_first", "focus_first">>
    /\ last.ret = <<0, "operator">>
    /\ Cardinality(DOMAIN screens) = 1
    /\ active_workspace(screens[active_screen]).clients = <<2, 4, 6>>
    /\ focused_client(screens[active_screen]) = Some(2)

\* The step is a call of TallLayout::focus_client, on a single screen, with
\* the given boundary predicate and terminal operator, while the focused
\* client is listed and the boundary predicate is false for it.
GuardedFocus(boundary, operator) ==
    /\ last'.op = "TallLayout::focus_client"
    /\ last'.arg[2] = boundary
    /\ last'.arg[3] = operator
    /\ Cardinality(DOMAIN screens) = 1
    /\ ActiveBefore.focused_client # None
    /\ ActiveBefore.focused_client[1] \in Range(ActiveBefore.clients)
    /\ ~CallBoundary(boundary, screens[active_screen], ActiveBefore.focused_client[1])

\* The focus has moved by offset positions in the unchanged list, without a
\* panic.
FocusMovedBy(offset) ==
    /\ panic' = None
    /\ ListsUnchanged
    /\ \E i \in DOMAIN ActiveBefore.clients :
           /\ ActiveBefore.focused_client = Some(ActiveBefore.clients[i])
           /\ i + offset \in DOMAIN ActiveBefore.clients
           /\ ActiveAfter.focused_client = Some(ActiveBefore.clients[i + offset])

\* C18: with a focused client that is listed in the active workspace,
\* focus_next applied only when is_last is false moves the focus to the
\* client one position later and focus_prev applied only when is_first is
\* false to the client one position earlier, and neither panics, for every
\* list and every sequence of such calls.
C18_OneStepFocus ==
    [][/\ GuardedFocus("is_last", "focus_next") => FocusMovedBy(1)
       /\ GuardedFocus("is_first", "focus_prev") => FocusMovedBy(-1)]_vars

\* focus_next, guarded by is_last, has moved the focus from the middle of a
\* list of three clients to its last client.
C18_Witness ==
    /\ last.op = "TallLayout::focus_client"
    /\ last.arg[2] = "is_last"
    /\ last.arg[3] = "focus_next"
    /\ last.ret = <<0, "operator">>
    /\ Cardinality(DOMAIN screens) = 1
    /\ active_workspace(screens[active_screen]).clients = <<2, 4, 6>>
    /\ focused_client(screens[active_screen]) = Some(6)

\* The step is a navigation called while the active workspace has a focused
\* client for which the boundary predicate of the call is true.
AtBoundary ==
    /\ IsNavigation
    /\ ActiveBefore.focused_client # None
    /\ CallBoundary(last'.arg[2], screens[active_screen], ActiveBefore.focused_client[1])

\* The screen get_relative_screen_idx finds from the active screen in the
\* direction of the call, if any.
Neighbour == get_relative_screen_idx(screens, active_screen, last'.arg[1])

C20_CrossScreenMove ==
    [][(/\ last'.op = "TallLayout::move_client"
        /\ AtBoundary
        /\ Neighbour # None) =>
           LET F == ActiveBefore.focused_client[1]
               target == Neighbour[1]
           IN  /\ panic' = None
               /\ active_screen' = active_screen
               /\ clients' = clients
               /\ ScreenShapeUnchanged
               /\ F \notin Range(ActiveAfter.clients)
               /\ \E i \in DOMAIN ActiveBefore.clients :
                      /\ ActiveBefore.clients[i] = F
                      /\ ActiveAfter.clients = WithoutAt(ActiveBefore.clients, i)
               /\ active_workspace(screens'[target]).clients
                      = active_workspace(screens[target]).clients \o <<F>>
               /\ \A slot \in WorkspaceSlots :
                      (/\ slot # <<active_screen, screens[active_screen].active_workspace>>
                       /\ slot # <<target, screens[target].active_workspace>>)
                          => screens'[slot[1]].workspaces[slot[2]].clients
                                 = screens[slot[1]].workspaces[slot[2]].clients]_vars

\* move_client has carried the second client from the rightmost monitor to
\* the tail of the list of its left neighbour, which held the first client.
C20_Witness ==
    /\ last.op = "TallLayout::move_client"
    /\ last.arg[1] = "Left"
    /\ last.ret = <<1, "moved">>
    /\ Arranged(ArrMirror)
    /\ active_screen = 0
    /\ active_workspace(screens[0]).clients = <<>>
    /\ active_workspace(screens[1]).clients = <<2, 4>>
    /\ DOMAIN clients = {2, 4}

\* The screen reached from screen idx by n steps of get_relative_screen_idx in
\* the given direction, if there is one.
RECURSIVE RelativeSteps(_, _, _)
RelativeSteps(idx, direction, n) ==
    IF n = 0 THEN Some(idx)
    ELSE LET prev == RelativeSteps(idx, direction, n - 1)
         IN  IF prev = None THEN None
             ELSE get_relative_screen_idx(screens, prev[1], direction)

\* focus_client, run with screen idx active, changes to the next screen: the
\* active workspace of idx has a focused client, the boundary predicate of the
\* call is true for it and a neighbouring screen exists in the direction.
PassesThrough(idx) ==
    /\ active_workspace(screens[idx]).clients # <<>>
    /\ focused_client(screens[idx]) # None
    /\ CallBoundary(last'.arg[2], screens[idx], focused_client(screens[idx])[1])
    /\ get_relative_screen_idx(screens, idx, last'.arg[1]) # None

\* What a call of TallLayout::focus_client with the arguments of the step
\* leaves behind when it is made with screen idx active.
RunOn(idx) ==
    TallLayout_focus_client(screens, idx, "focus_last", last'.arg[2], last'.arg[1],
                            last'.arg[3], {})

\* C21: when the boundary predicate is true for the focused client and a
\* neighbouring screen exists in the requested direction,
\* TallLayout::focus_client makes that neighbour the active screen and runs
\* the whole algorithm again on it: the call leaves what a call made with the
\* neighbour active leaves. The focus and the client list of the screen it
\* left are unchanged, and the final active screen is reached from the
\* original one by one or more get_relative_screen_idx(direction) steps, each
\* screen before it being one the algorithm passes through.
C21_CrossScreenFocus ==
    [][(/\ last'.op = "TallLayout::focus_client"
        /\ AtBoundary
        /\ Neighbour # None) =>
           \E rerun \in {RunOn(Neighbour[1])} :
               /\ screens' = rerun.screens
               /\ active_screen' = rerun.active_screen
               /\ panic' = rerun.panic
               /\ last'.ret = <<rerun.hops + 1, rerun.end>>
               /\ screens'[active_screen] = screens[active_screen]
               /\ active_screen' # active_screen
               /\ clients' = clients
               /\ ~PassesThrough(active_screen')
               /\ \E n \in {last'.ret[1]} :
                      /\ n \in 1..(Cardinality(DOMAIN screens) - 1)
                      /\ RelativeSteps(active_screen, last'.arg[1], n) = Some(active_screen')
                      /\ \A k \in 1..(n - 1) :
                             PassesThrough(RelativeSteps(active_screen, last'.arg[1], k)[1])]_vars

\* focus_client was called to the right on the leftmost of three monitors in
\* a row, passed through the middle one, whose only client has the focus, and
\* stopped on the empty rightmost one.
C21_Witness ==
    /\ last.op = "TallLayout::focus_client"
    /\ last.arg[1] = "Right"
    /\ last.ret = <<2, "empty">>
    /\ Arranged(ArrRow)
    /\ active_screen = 2
    /\ active_workspace(screens[0]).clients = <<2>>
    /\ focused_client(screens[0]) = Some(2)
    /\ active_workspace(screens[1]).clients = <<4>>
    /\ focused_client(screens[1]) = Some(4)
    /\ active_workspace(screens[2]).clients = <<>>

\* C22: TallLayout::focus_client always terminates: whatever the arrangement
\* of the screens (widths and heights of zero included), the direction and
\* the contents of the workspaces, the recursion changes screen at most
\* (number of screens - 1) times and comes to no screen twice.
C22_FocusTerminates ==
    [][last'.op = "TallLayout::focus_client" =>
           /\ panic' # Some("unbounded recursion")
           /\ last'.ret[1] <= Cardinality(DOMAIN screens) - 1]_vars

----------------------------------------------------------------------------
(* Properties of the TallLayout geometry                                   *)

\* The step is a call of TallLayout::display_clients.
IsDisplay == last'.op = "display_clients"

\* The records of the visible clients the call was given, the rectangle of
\* its screen and the border width.
Visible == get_visible_screen_clients(clients, screens[last'.arg[1]]).clients
Rect == screens[last'.arg[1]].position
Border == config.border_width

\* The geometries the call has configured a window with.
Configured(window) ==
    {last'.requests[j].position[1] :
        j \in {k \in DOMAIN last'.requests :
                  /\ last'.requests[k].request = "ConfigureWindow"
                  /\ last'.requests[k].window = window}}

\* Every client was placed if the call returned, and a client that was
\* placed was given exactly the frame and content geometry stated.
PlacedAs(i, frame, content) ==
    /\ Configured(Visible[i].frame) \subseteq {frame}
    /\ Configured(Visible[i].window) \subseteq {content}
    /\ Configured(Visible[i].frame) = {} <=> Configured(Visible[i].window) = {}
    /\ last'.ret = "Ok" => Configured(Visible[i].frame) # {}

\* floor(w / 2) and ceil(h / n), by what characterises them.
HalfOf(w) == CHOOSE m \in 0..w : 2 * m <= w /\ w <= 2 * m + 1
CeilOf(h, n) == CHOOSE c \in 0..h : c * n >= h /\ (c = 0 \/ (c - 1) * n < h)

\* The main width and the side-column width of the claim.
MainWidth == IF Len(Visible) = 1 THEN Rect.width ELSE HalfOf(Rect.width)
SideWidth == Rect.width - MainWidth

\* C23: for a screen rectangle R, border width B and N >= 1 visible clients,
\* the main width is R.width when N = 1 and floor(R.width / 2) otherwise and
\* the side-column width is R.width minus the main width; the main client's
\* frame is (R.x, R.y, mainWidth - 2B, R.height - 2B) with content
\* (0, 0, mainWidth - B, R.height - B), and the side client at index i has
\* height h = ceil(R.height / (N - 1)), frame
\* (R.x + mainWidth, R.y + h * (i - 1), sideWidth - 2B, h - 2B) and content
\* (0, 0, sideWidth - 2B, h - 2B). The differences are taken in u32.
C23_TallGeometry ==
    [][(IsDisplay /\ Visible # <<>>) =>
        /\ MainWidth + SideWidth = Rect.width
        /\ PlacedAs(1,
                    Position(Rect.x, Rect.y, MainWidth - 2 * Border,
                             Rect.height - 2 * Border),
                    Position(0, 0, MainWidth - Border, Rect.height - Border))
        /\ \A i \in 1..(Len(Visible) - 1) :
               \E h \in {CeilOf(Rect.height, Len(Visible) - 1)} :
                   PlacedAs(i + 1,
                            Position(Rect.x + MainWidth, Rect.y + h * (i - 1),
                                     SideWidth - 2 * Border, h - 2 * Border),
                            Position(0, 0, SideWidth - 2 * Border, h - 2 * Border))]_vars

\* Three clients were placed on a screen of 4 by 5 at (1920, -1080) with a
\* border of 1: the second side client's frame is at (1922, -1077), 0 by 1.
C23_Witness ==
    /\ last.op = "display_clients"
    /\ last.ret = "Ok"
    /\ config.border_width = 1
    /\ screens[0].position = Position(1920, -1080, 4, 5)
    /\ \E j \in DOMAIN last.requests :
           last.requests[j] = ConfigureWindow(6, Position(1922, -1077, 0, 1))
    /\ \E j \in DOMAIN last.requests :
           last.requests[j] = ConfigureWindow(2, Position(1920, -1080, 0, 3))

\* The vertical slice the k-th side client was given, border included: its
\* offset from the top of the screen and its extent.
SliceStart(k) ==
    (CHOOSE p \in Configured(Visible[k + 1].frame) : TRUE).y - Rect.y
SliceExtent(k) ==
    (CHOOSE p \in Configured(Visible[k + 1].frame) : TRUE).height + 2 * Border
SliceEnd(k) == SliceStart(k) + SliceExtent(k)

\* C24: for a screen of height H and N > 1 visible clients, the N - 1 side
\* slices (slice k starting at h * k, h = ceil(H / (N - 1))) cover [0, H)
\* with no gaps and no overlaps, every slice starts inside the screen, and
\* only the last slice may be shorter than h, so that no slice extends
\* beyond H.
C24_SlicesCoverHeight ==
    [][(IsDisplay /\ Len(Visible) > 1 /\ last'.ret = "Ok") =>
        \E n \in {Len(Visible) - 1} :
            /\ SliceStart(1) = 0
            /\ \A k \in 1..(n - 1) :
                   /\ SliceEnd(k) = SliceStart(k + 1)
                   /\ SliceExtent(k) = CeilOf(Rect.height, n)
            /\ \A k \in 1..n :
                   /\ SliceStart(k) < Rect.height
                   /\ SliceEnd(k) <= Rect.height
            /\ SliceEnd(n) = Rect.height]_vars

\* By how much the content window of the i-th client is wider and taller
\* than its frame.
ContentOverFrame(i) ==
    LET frame == CHOOSE p \in Configured(Visible[i].frame) : TRUE
        content == CHOOSE p \in Configured(Visible[i].window) : TRUE
    IN  <<content.width - frame.width, content.height - frame.height>>

\* C25: for every client placed by the tall layout, main and side alike, the
\* sizes of the content window and of its frame differ by exactly the border
\* width B in each dimension (whichever of the two is taken as the larger),
\* the same for every placed client.
C25_SameInset ==
    [][(IsDisplay /\ last'.ret = "Ok") =>
        \A i \in DOMAIN Visible :
            \/ ContentOverFrame(i) = <<Border, Border>>
            \/ ContentOverFrame(i) = <<-Border, -Border>>]_vars

\* The positions of the call's requests at which the given request stands.
RequestedAt(request) == {j \in DOMAIN last'.requests : last'.requests[j] = request}

\* Some request of the set was made before position j.
Before(positions, j) == \E i \in positions : i < j

\* C26: in TallLayout::display_clients each visible client is told to render
\* as unfocused before it is configured and mapped; the content window of
\* each client is mapped before its frame; and the render-as-focused call is
\* made at most once, only after every visible client has been configured
\* and mapped, and only for a focused client that is among the visible ones.
C26_RequestOrder ==
    [][IsDisplay =>
        /\ \A i \in DOMAIN Visible : \A j \in DOMAIN last'.requests :
               /\ (/\ last'.requests[j].request \in {"ConfigureWindow", "MapWindow"}
                   /\ last'.requests[j].window \in {Visible[i].frame, Visible[i].window})
                      => Before(RequestedAt(Decorator_unfocus_client(Visible[i])), j)
               /\ last'.requests[j] = MapWindow(Visible[i].frame)
                      => Before(RequestedAt(MapWindow(Visible[i].window)), j)
        /\ \A j \in DOMAIN last'.requests :
               last'.requests[j].request = "focus_client" =>
                   /\ j = Len(last'.requests)
                   /\ last'.arg[2] # None
                   /\ \E i \in DOMAIN Visible : Visible[i] = last'.arg[2][1]
                   /\ last'.requests[j] = Decorator_focus_client(last'.arg[2][1])
                   /\ \A i \in DOMAIN Visible :
                          /\ Configured(Visible[i].frame) # {}
                          /\ Configured(Visible[i].window) # {}
                          /\ Before(RequestedAt(MapWindow(Visible[i].window)), j)
                          /\ Before(RequestedAt(MapWindow(Visible[i].frame)), j)]_vars

\* Two visible clients were displayed with the second one focused: eleven
\* requests, the last of them the render-as-focused call for its frame.
C26_Witness ==
    /\ last.op = "display_clients"
    /\ last.ret = "Ok"
    /\ Len(last.requests) = 11
    /\ last.requests[1] = Request("unfocus_client", 2, None)
    /\ last.requests[4] = MapWindow(1)
    /\ last.requests[5] = MapWindow(2)
    /\ last.requests[6] = Request("unfocus_client", 4, None)
    /\ last.requests[11] = Request("focus_client", 4, None)

----------------------------------------------------------------------------
(* Properties of the event loop                                            *)

\* The events of the forwarded kinds, in the order the server emitted them.
ForwardedEvents ==
    SelectSeq([i \in 1..Len(run.emitted) |-> i], LAMBDA i : run.emitted[i] \in Forwarded)

IsPrefix(s, t) == Len(s) <= Len(t) /\ s = SubSeq(t, 1, Len(s))

\* The events handed to handlers, followed by the events in the channel, are
\* the forwarded-kind events the producer has passed, in the order of
\* emission: each exactly once.
InOrder ==
    /\ IsPrefix(run.handled \o run.channel, ForwardedEvents)
    /\ Len(run.handled \o run.channel)
           = Cardinality({i \in 1..run.taken : run.emitted[i] \in Forwarded})
             - (IF run.producer.pc = "send" THEN 1 ELSE 0)

\* A handler call is the call of the handler of the kind of the event at the
\* head of the channel, with that event.
DispatchedToHandler ==
    run'.handled # run.handled =>
        /\ run.channel # <<>>
        /\ run'.handled = Append(run.handled, Head(run.channel))
        /\ run'.channel = Tail(run.channel)
        /\ last' = Op(HandlerOf(run.emitted[Head(run.channel)]), <<Head(run.channel)>>, <<>>)

\* C27: the consumer dispatches the forwarded events (key-press, map-request,
\* destroy-notify, enter-notify) to their handlers in exactly the order in
\* which the display server emitted them; no forwarded event is dropped,
\* duplicated, coalesced or reordered between producer and consumer.
C27_EventOrder == [](InOrder) /\ [][DispatchedToHandler]_vars

\* A key press and a map request, emitted around a property notification,
\* have been handled in that order and nothing else has.
C27_Witness ==
    /\ run.process = "running"
    /\ run.emitted = <<"KeyPress", "PropertyNotify", "MapRequest">>
    /\ run.handled = <<1, 3>>
    /\ last.op = "on_map_request"

\* The window-manager state is unchanged by the step.
StateUnchanged == UNCHANGED <<screens, clients, active_screen, config, next_id>>

\* C28: for each event it receives the consumer calls exactly one handler,
\* and that handler has returned before the next event is taken from the
\* channel; the producer never writes the window-manager state: under every
\* interleaving the state is changed only by the return of the handler
\* running on the consumer.
C28_RunToCompletion ==
    [][/\ Len(run'.channel) < Len(run.channel) =>
              /\ run.consumer.pc = "recv"
              /\ run'.consumer = [pc |-> "handler", event |-> Head(run.channel)]
              /\ run'.handled = Append(run.handled, Head(run.channel))
              /\ run'.channel = Tail(run.channel)
       /\ run'.handled # run.handled => Len(run'.channel) < Len(run.channel)
       /\ ~StateUnchanged =>
              /\ run.consumer.pc = "handler"
              /\ [run' EXCEPT !.failed = run.failed] = [run EXCEPT !.consumer.pc = "recv"]
       /\ (run'.producer # run.producer \/ run'.taken # run.taken) => StateUnchanged]_vars

\* A handler is running, after an earlier one created a client, while the
\* producer has put the next event into the channel.
C28_Witness ==
    /\ run.process = "running"
    /\ run.consumer.pc = "handler"
    /\ run.channel # <<>>
    /\ run.producer.pc = "flush"
    /\ DOMAIN clients # {}

\* A step in which the producer takes an event of a kind it ignores changes
\* nothing but the producer: no handler is called and the state stays.
IgnoredKindsIgnored ==
    /\ (/\ run'.taken # run.taken
        /\ run.emitted[run'.taken] \in {"PropertyNotify", "UnmapNotify"})
           => /\ StateUnchanged
              /\ run'.channel = run.channel
              /\ run'.handled = run.handled
              /\ run'.producer.pc = "flush"
    /\ \A i \in DOMAIN run'.handled :
           run.emitted[run'.handled[i]] \notin {"PropertyNotify", "UnmapNotify"}

\* C29: the producer loops forever: after an event of any of the typed kinds
\* it comes back to waiting for the next one, so every key-press,
\* map-request, destroy-notify and enter-notify event the server emits is in
\* the end forwarded to the consumer and handled; property-notify and
\* unmap-notify events cause no handler call and no state change.
C29_ProducerLoopsForever ==
    /\ (run.producer.pc # "wait_for_event") ~> (run.producer.pc = "wait_for_event")
    /\ \A i \in 1..MaxEvents :
           (Len(run.emitted) >= i /\ run.emitted[i] \in Forwarded)
               ~> (\E j \in DOMAIN run.handled : run.handled[j] = i)
    /\ [][IgnoredKindsIgnored]_vars

\* C30: when a send on the channel fails because the receiver is gone, the
\* producer aborts the whole process at once: from the moment it stands at
\* such a send it neither moves on, nor forwards the event, nor takes a
\* further event; the process aborts for no other reason, and nothing runs
\* after the abort.
C30_SendFailureAborts ==
    [][/\ (run.producer.pc = "send" /\ ~run.receiver) =>
              /\ run'.producer = run.producer
              /\ run'.channel = run.channel
              /\ run'.taken = run.taken
       /\ (run'.process = "aborted" /\ run.process # "aborted") =>
              /\ run.producer.pc = "send"
              /\ ~run.receiver
              /\ run' = [run EXCEPT !.process = "aborted"]
       /\ run.process # "aborted"]_vars

\* The handler of a key press panicked while the producer held a map request
\* to send: the send failed and the process was aborted, the event unsent.
C30_Witness ==
    /\ run.process = "aborted"
    /\ run.consumer.pc = "unwinding"
    /\ run.producer = [pc |-> "send", event |-> 2]
    /\ run.emitted[2] = "MapRequest"
    /\ run.channel = <<>>
    /\ run.handled = <<1>>

\* The step is the return of a handler whose calls failed.
HandlerFailed == run'.failed # run.failed

\* C31: when a handler returns a recoverable error (a request such as a
\* reparent or a window creation was rejected) the consumer does not
\* terminate: the process keeps running with the receiver in place and the
\* consumer back at the receive, the channel as it was, and the next event
\* in the channel is then received and dispatched to its handler.
C31_ErrorDoesNotTerminate ==
    /\ [][HandlerFailed =>
              /\ run'.process = "running"
              /\ run'.receiver
              /\ run'.consumer.pc = "recv"
              /\ run'.channel = run.channel
              /\ run'.handled = run.handled]_vars
    /\ \A i \in 1..MaxEvents :
           (/\ run.failed # {}
            /\ run.consumer.pc = "recv"
            /\ run.channel # <<>>
            /\ Head(run.channel) = i)
               ~> (\E j \in DOMAIN run.handled : run.handled[j] = i)

\* The handler of the first event returned an error, and the second event
\* has been received and its handler has returned.
C31_Witness ==
    /\ run.process = "running"
    /\ run.failed = {1}
    /\ run.handled = <<1, 2>>
    /\ run.consumer = [pc |-> "recv", event |-> 2]

----------------------------------------------------------------------------
(* Further properties of the spatial queries                               *)

\* C32: whenever two or more candidate screens are at the same Euclidean
\* distance from the active screen's top-left corner, get_relative_screen_idx
\* returns the one with the lowest index in the screen list, and a candidate
\* at a strictly larger distance is never preferred over a nearer one,
\* whatever the list order and however small the difference.
C32_TieBreak ==
    \A direction \in Directions :
        \E found \in {get_relative_screen_idx(screens, active_screen, direction)} :
            found # None =>
                \A other \in HalfPlane(direction) :
                    /\ CornerDistanceSquared(other) = CornerDistanceSquared(found[1])
                           => found[1] <= other
                    /\ CornerDistanceSquared(other) >= CornerDistanceSquared(found[1])

----------------------------------------------------------------------------
(* Properties of the reserved margins                                      *)

\* The screens that differ from the given one at most in the reserved
\* margins and the reserved clients.
MarginVariants(screen) ==
    {[screen EXCEPT !.reserved_left_area = l, !.reserved_bottom_area = b,
                    !.reserved_top_area = t, !.reserved_right_area = r,
                    !.reserved_clients = registered] :
        l \in {0, MaxMargin}, b \in {0, MaxMargin}, t \in {0, MaxMargin},
        r \in {0, MaxMargin}, registered \in {<<>>, screen.reserved_clients}}

\* What display_clients sends for the given screen, called as it was last.
RequestsOn(screen) ==
    display_clients(Screen_position(screen),
                    get_visible_screen_clients(clients, screen).clients,
                    last.arg[2], config.border_width, last.arg[3], last.arg[4]).requests

\* C33: the geometry display_clients sends depends only on the screen's raw
\* rectangle, the border width and the visible clients in their order: for
\* any screen that differs from the one displayed only in its reserved
\* margins and reserved clients, the requests, hence the frame and content
\* rectangles of every client, are the same.
C33_GeometryIgnoresMargins ==
    last.op = "display_clients" =>
        \A variant \in MarginVariants(screens[last.arg[1]]) :
            RequestsOn(variant) = last.requests

\* Two clients were laid out on a screen whose left and top edges are partly
\* reserved.
C33_Witness ==
    /\ last.op = "display_clients"
    /\ last.ret = "Ok"
    /\ Len(active_workspace(screens[last.arg[1]]).clients) = 2
    /\ Len(last.requests) > 2
    /\ screens[last.arg[1]].reserved_left_area > 0
    /\ screens[last.arg[1]].reserved_top_area > 0

\* The sum of one of the margins over the reserved clients.
RECURSIVE MarginSum(_, _)
MarginSum(registered, edge) ==
    IF registered = <<>> THEN 0
    ELSE (CASE edge = "left" -> Head(registered).reserved_left
            [] edge = "bottom" -> Head(registered).reserved_bottom
            [] edge = "top" -> Head(registered).reserved_top
            [] edge = "right" -> Head(registered).reserved_right)
         + MarginSum(Tail(registered), edge)

\* Every accumulator is the sum of the margins of the reserved clients
\* registered and not removed, and is not negative.
AccumulatorsAreSums ==
    \A s \in DOMAIN screens :
        /\ screens[s].reserved_left_area = MarginSum(screens[s].reserved_clients, "left")
        /\ screens[s].reserved_bottom_area = MarginSum(screens[s].reserved_clients, "bottom")
        /\ screens[s].reserved_top_area = MarginSum(screens[s].reserved_clients, "top")
        /\ screens[s].reserved_right_area = MarginSum(screens[s].reserved_clients, "right")
        /\ screens[s].reserved_left_area >= 0
        /\ screens[s].reserved_bottom_area >= 0
        /\ screens[s].reserved_top_area >= 0
        /\ screens[s].reserved_right_area >= 0

\* C34: get_available_area returns (x + left, y + top, width - left - right,
\* height - top - bottom) for the current margins; when every subtraction
\* from an accumulator undoes an earlier addition of the same amount on the
\* same edge, each accumulator is the sum of the additions not undone and is
\* >= 0; and with margins that come from registered reserved clients the
\* width and the height of the available area are >= 0.
C34_AvailableArea ==
    /\ AccumulatorsAreSums
    /\ last.op = "get_available_area" =>
           \E screen \in {screens[last.arg[1]]} :
               /\ panic = None
               /\ screen.position.width - screen.reserved_left_area
                      - screen.reserved_right_area >= 0
               /\ screen.position.height - screen.reserved_top_area
                      - screen.reserved_bottom_area >= 0
               /\ last.ret = Some(Position(
                     screen.position.x + screen.reserved_left_area,
                     screen.position.y + screen.reserved_top_area,
                     screen.position.width - screen.reserved_left_area
                         - screen.reserved_right_area,
                     screen.position.height - screen.reserved_top_area
                         - screen.reserved_bottom_area))

----------------------------------------------------------------------------
(* Further properties of the TallLayout navigation and of the bookkeeping  *)

\* The list with the entries at positions i and j, counted from one,
\* exchanged.
Exchanged(list, i, j) ==
    [k \in DOMAIN list |-> IF k = i THEN list[j] ELSE IF k = j THEN list[i] ELSE list[k]]

\* The position, counted from one, that the swap operator of the call
\* exchanges position i with.
Partner(i) ==
    CASE last'.arg[3] = "swap_prev" -> i - 1
      [] last'.arg[3] = "swap_next" -> i + 1
      [] last'.arg[3] = "swap_first" -> 1

\* The step is a call of move_client that reaches its terminal operator: the
\* active workspace has a focused client, which is in its list and for which
\* the boundary predicate of the call is false.
ReachesSwap ==
    /\ last'.op = "TallLayout::move_client"
    /\ ActiveBefore.focused_client # None
    /\ ActiveBefore.focused_client[1] \in Range(ActiveBefore.clients)
    /\ ~CallBoundary(last'.arg[2], screens[active_screen], ActiveBefore.focused_client[1])

\* C35: when move_client applies its terminal operator (swap_prev, swap_next
\* or swap_first) to the focused client F, the list of the active workspace
\* afterwards is the list before with F exchanged with its predecessor, its
\* successor or the first element; the set of clients, the focused id (still
\* F), the active screen, every other workspace and the client map are
\* unchanged. Where F has no such neighbour the operator panics and nothing
\* is written.
C35_InWorkspaceMove ==
    [][ReachesSwap =>
           \E F \in {ActiveBefore.focused_client[1]} :
           \E i \in {k \in DOMAIN ActiveBefore.clients : ActiveBefore.clients[k] = F} :
               /\ \A k \in DOMAIN ActiveBefore.clients : ActiveBefore.clients[k] = F => k = i
               /\ active_screen' = active_screen
               /\ clients' = clients
               /\ OtherWorkspacesUnchanged
               /\ ScreenShapeUnchanged
               /\ ActiveAfter.focused_client = Some(F)
               /\ IF Partner(i) \in DOMAIN ActiveBefore.clients
                  THEN /\ panic' = None
                       /\ last'.ret = <<0, "operator">>
                       /\ ActiveAfter.clients = Exchanged(ActiveBefore.clients, i, Partner(i))
                       /\ Range(ActiveAfter.clients) = Range(ActiveBefore.clients)
                  ELSE /\ panic' # None
                       /\ ActiveAfter.clients = ActiveBefore.clients]_vars

\* move_client with swap_first has exchanged the focused third client with
\* the first.
C35_Witness ==
    /\ last.op = "TallLayout::move_client"
    /\ last.arg[2] = "is_first"
    /\ last.arg[3] = "swap_first"
    /\ last.ret = <<0, "operator">>
    /\ active_workspace(screens[active_screen]).clients = <<6, 4, 2>>
    /\ focused_client(screens[active_screen]) = Some(6)

\* C36: in every state reached from ScreenManager::new by create_client with
\* fresh ids, close_focused_client, ScreenManager::focus_client,
\* maybe_switch_screen and TallLayout::focus_client / move_client, an active
\* workspace that is not empty has a focused client, and no navigation has
\* aborted with 'tried to get the focused client when there was none'.
C36_NoNavigationPanic ==
    /\ \A s \in DOMAIN screens :
           active_workspace(screens[s]).clients # <<>>
               => active_workspace(screens[s]).focused_client # None
    /\ panic # Some(NoFocused)

\* The number of places, over every workspace list of every screen, at which
\* the frame is listed.
Listings(frame) ==
    {<<slot, i>> \in WorkspaceSlots \X (1..(2 * MaxClientsNav)) :
        /\ i \in DOMAIN screens[slot[1]].workspaces[slot[2]].clients
        /\ screens[slot[1]].workspaces[slot[2]].clients[i] = frame}

\* The workspaces whose focus the step changes.
FocusChanged ==
    {slot \in WorkspaceSlots :
        screens'[slot[1]].workspaces[slot[2]].focused_client
            # screens[slot[1]].workspaces[slot[2]].focused_client}

\* C37: in every state reached by create_client with pairwise distinct frame
\* ids, close_focused_client, ScreenManager::focus_client and
\* TallLayout::focus_client / move_client, each frame id is listed at most
\* once, in at most one workspace list across all screens; so
\* ScreenManager::focus_client sets the focus on at most one workspace.
C37_FrameUnique ==
    /\ [](\A frame \in 1..next_id : Cardinality(Listings(frame)) <= 1)
    /\ [][last'.op = "focus_client" => Cardinality(FocusChanged) <= 1]_vars

\* Client 4 was moved from the right monitor to its left neighbour, where
\* client 2 had been moved before, and ScreenManager::focus_client has
\* focused it there: both are listed once, on that screen.
C37_Witness ==
    /\ Arranged(ArrMirror)
    /\ last.op = "focus_client"
    /\ last.arg = <<4>>
    /\ active_workspace(screens[0]).clients = <<>>
    /\ active_workspace(screens[1]).clients = <<2, 4>>
    /\ active_workspace(screens[1]).focused_client = Some(4)

\* C38: in every state reached by create_client, close_focused_client,
\* Screen::set_active_workspace and TallLayout::move_client across screens,
\* the workspace field of each Client record of the map is the id of the
\* workspace whose client list holds that client's frame.
C38_ClientWorkspace ==
    \A frame \in DOMAIN clients :
        \A slot \in WorkspaceSlots :
            frame \in Range(screens[slot[1]].workspaces[slot[2]].clients)
                => clients[frame].workspace = screens[slot[1]].workspaces[slot[2]].id

\* C39: get_relative_screen_idx never returns the index of the active screen
\* itself, for any direction and any list of screen rectangles of width and
\* height >= 0, those of width or height zero included.
C39_NeverItself ==
    \A direction \in Directions :
        get_relative_screen_idx(screens, active_screen, direction) # Some(active_screen)

----------------------------------------------------------------------------
(* A further property of the tall layout                                   *)

\* C40: for every screen of width >= 1 and height >= 1, every border width
\* B >= 0 and every number N >= 1 of visible clients, the widths and heights
\* display_main_client and display_side_client compute (mainWidth - 2B,
\* height - 2B, mainWidth - B, sideWidth - 2B, ceil(height / (N - 1)) - 2B)
\* are >= 0: no u32 subtraction underflows, so the call does not panic and
\* every size it configures is the difference itself.
C40_NoUnderflow ==
    [][(IsDisplay /\ Rect.width >= 1 /\ Rect.height >= 1 /\ Visible # <<>>) =>
           /\ panic' = None
           /\ MainWidth - 2 * Border >= 0
           /\ Rect.height - 2 * Border >= 0
           /\ MainWidth - Border >= 0
           /\ Len(Visible) > 1 =>
                  /\ SideWidth - 2 * Border >= 0
                  /\ CeilOf(Rect.height, Len(Visible) - 1) - 2 * Border >= 0
           /\ \A j \in DOMAIN last'.requests :
                  last'.requests[j].request = "ConfigureWindow" =>
                      /\ last'.requests[j].position[1].width >= 0
                      /\ last'.requests[j].position[1].height >= 0]_vars

====
